---- MODULE Spec2Model ----
(***************************************************************************)
(* Sunrun integration: the SunrunApi client (session state, passwordless   *)
(* OTP flow, three endpoint clients, the snapshot aggregator) and the      *)
(* poll coordinator that maps its outcome, and the config flow that runs    *)
(* the OTP flow for a new entry and for a re-authentication.               *)
(*                                                                         *)
(* Encoding of Python values:                                              *)
(*   None          <<>>            an optional value is a sequence of       *)
(*   a value v     <<v>>           length 0 or 1                            *)
(*   a JSON object a function from the keys present to their values         *)
(*   a JSON list   a sequence                                               *)
(*   a number      an integer count of hundredths (3.2 is 320)              *)
(*   a date, a daily timestamp    a sequence of characters                  *)
(***************************************************************************)
EXTENDS Integers, Sequences, FiniteSets, TLC

VARIABLES api, last, flow, entries

vars == <<api, last, flow, entries>>

\* ------------------------------------------------------------------ values

None == <<>>

Some(v) == <<v>>

\* Python truthiness of an optional string: None and "" are falsy.
Truthy(o) == o # None /\ o[1] # ""

\* dict.get(key) / dict.get(key, default) on a JSON object.
Get(obj, key) == IF key \in DOMAIN obj THEN Some(obj[key]) ELSE None

GetOr(obj, key, default) == IF key \in DOMAIN obj THEN obj[key] ELSE default

EmptyObj == [k \in {} |-> None]

\* ------------------------------------------------------------- exceptions

\* class SunrunApiError(Exception); class SunrunAuthError(SunrunApiError).
\* IsSunrunApiError(e): an `except SunrunApiError` clause catches e.
IsSunrunApiError(e) == e \in {"SunrunApiError", "SunrunAuthError"}

IsSunrunAuthError(e) == e = "SunrunAuthError"

\* What the transport can raise instead of answering.  A connection failure
\* and a socket/connect timeout are aiohttp.ClientError subclasses; the
\* session's total timeout raises asyncio.TimeoutError, which is not.
TransportErrors == {"ClientConnectionError", "ServerTimeoutError", "TimeoutError"}

IsClientError(e) == e \in {"ClientConnectionError", "ServerTimeoutError"}

\* The result of one call: the object afterwards, the exception raised
\* ("none" when the call returned), the value returned, the requests issued.
Return(self, v, net) == [self |-> self, exc |-> "none", ret |-> v, net |-> net]

Raise(self, e, net) == [self |-> self, exc |-> e, ret |-> None, net |-> net]

\* `except aiohttp.ClientError as err: raise SunrunApiError(...)` around a
\* request: a ClientError becomes SunrunApiError, anything else escapes.
MapTransport(e) == IF IsClientError(e) THEN "SunrunApiError" ELSE e

\* -------------------------------------------------------------- responses

Http(status, body) == [kind |-> "http", status |-> status, body |-> body]

Fail(e) == [kind |-> "raise", exc |-> e]

ErrorStatuses == {401, 403, 500}

\* A request as the transport sees it: the endpoint constant of const.py, the
\* Authorization header, and the phone / code / token of the JSON payload.
Request(method, endpoint, auth, phone, code, token) ==
    [method |-> method, endpoint |-> endpoint, auth |-> auth,
     phone |-> phone, code |-> code, token |-> token]

\* _get_headers: Authorization is set only for a truthy access token.
GetHeadersAuth(self) == IF Truthy(self.access_token) THEN self.access_token ELSE None

\* ---------------------------------------------------------------- SunrunApi

\* SunrunApi.__init__
NewApi(access_token, prospect_id) ==
    [access_token |-> access_token, prospect_id |-> prospect_id, auth_token |-> None]

\* Mutant of request_otp: a pending exchange token is not replaced.
request_otp_keep_pending(self, phone, resp) ==
    LET req == Request("POST", "AUTH_REQUEST_ENDPOINT", GetHeadersAuth(self),
                       Some(phone), None, None)
    IN  IF resp.kind = "raise"
        THEN Raise(self, MapTransport(resp.exc), <<req>>)
        ELSE IF resp.status = 200
             THEN LET self2 == IF Truthy(self.auth_token) THEN self
                               ELSE [self EXCEPT !.auth_token = Get(resp.body, "token")]
                  IN  IF Truthy(self2.auth_token)
                      THEN Return(self2, TRUE, <<req>>)
                      ELSE Return(self2, FALSE, <<req>>)
             ELSE Raise(self, "SunrunAuthError", <<req>>)

\* request_otp: POST the challenge endpoint; on 200 the exchange token is the
\* top-level `token` of the body, stored whatever it is.
request_otp(self, phone, resp) ==
    LET req == Request("POST", "AUTH_REQUEST_ENDPOINT", GetHeadersAuth(self),
                       Some(phone), None, None)
    IN  IF resp.kind = "raise"
        THEN Raise(self, MapTransport(resp.exc), <<req>>)
        ELSE IF resp.status = 200
             THEN LET self2 == [self EXCEPT !.auth_token = Get(resp.body, "token")]
                  IN  IF Truthy(self2.auth_token)
                      THEN Return(self2, TRUE, <<req>>)
                      ELSE Return(self2, FALSE, <<req>>)
             ELSE Raise(self, "SunrunAuthError", <<req>>)

\* Mutant of FirstEntry: the most recent entry is taken instead of the first.
LastEntry(opportunities) == opportunities[Len(opportunities)]

\* opportunities[0]
FirstEntry(opportunities) == opportunities[1]

\* Mutant of MissingCredentials: only the access token is checked.
MissingAccessToken(self) == ~Truthy(self.access_token)

\* if not self._access_token or not self._prospect_id
MissingCredentials(self) == ~Truthy(self.access_token) \/ ~Truthy(self.prospect_id)

\* Mutant of verify_otp: a rejected code (non-200) drops the exchange token.
verify_otp_drop_on_reject(self, phone, code, resp) ==
    IF ~Truthy(self.auth_token)
    THEN Raise(self, "SunrunAuthError", <<>>)
    ELSE
    LET req == Request("POST", "AUTH_RESPOND_ENDPOINT", self.auth_token,
                       Some(phone), Some(code), self.auth_token)
    IN  IF resp.kind = "raise"
        THEN Raise(self, MapTransport(resp.exc), <<req>>)
        ELSE IF resp.status = 200
             THEN LET data == resp.body
                      opportunities == GetOr(data, "opportunitiesWithContracts", <<>>)
                      prospect == IF opportunities # <<>>
                                  THEN Get(FirstEntry(opportunities), "prospect_id")
                                  ELSE None
                      pto_date == IF opportunities # <<>>
                                  THEN Get(GetOr(FirstEntry(opportunities), "contract", EmptyObj),
                                           "ptoDate")
                                  ELSE None
                      self2 == [self EXCEPT
                                  !.access_token = Get(GetOr(data, "data", EmptyObj), "accessToken"),
                                  !.prospect_id = prospect]
                  IN  IF MissingCredentials(self2)
                      THEN Raise(self2, "SunrunAuthError", <<req>>)
                      ELSE Return(self2,
                                  [access_token |-> self2.access_token,
                                   prospect_id |-> self2.prospect_id,
                                   pto_date |-> pto_date],
                                  <<req>>)
             ELSE Raise([self EXCEPT !.auth_token = None], "SunrunAuthError", <<req>>)

\* Mutant of NoExchangeToken: the token is not checked before the request.
ExchangeTokenUnchecked(self) == FALSE

\* if not self._auth_token
NoExchangeToken(self) == ~Truthy(self.auth_token)

\* verify_otp: POST the respond endpoint with the exchange token; on 200 the
\* credentials are assigned from the body first and checked afterwards.  The
\* exchange token is left in place on every path.
verify_otp(self, phone, code, resp) ==
    IF NoExchangeToken(self)
    THEN Raise(self, "SunrunAuthError", <<>>)
    ELSE
    LET req == Request("POST", "AUTH_RESPOND_ENDPOINT", self.auth_token,
                       Some(phone), Some(code), self.auth_token)
    IN  IF resp.kind = "raise"
        THEN Raise(self, MapTransport(resp.exc), <<req>>)
        ELSE IF resp.status = 200
             THEN LET data == resp.body
                      opportunities == GetOr(data, "opportunitiesWithContracts", <<>>)
                      prospect == IF opportunities # <<>>
                                  THEN Get(FirstEntry(opportunities), "prospect_id")
                                  ELSE None
                      pto_date == IF opportunities # <<>>
                                  THEN Get(GetOr(FirstEntry(opportunities), "contract", EmptyObj),
                                           "ptoDate")
                                  ELSE None
                      self2 == [self EXCEPT
                                  !.access_token = Get(GetOr(data, "data", EmptyObj), "accessToken"),
                                  !.prospect_id = prospect]
                  IN  IF MissingCredentials(self2)
                      THEN Raise(self2, "SunrunAuthError", <<req>>)
                      ELSE Return(self2,
                                  [access_token |-> self2.access_token,
                                   prospect_id |-> self2.prospect_id,
                                   pto_date |-> pto_date],
                                  <<req>>)
             ELSE Raise(self, "SunrunAuthError", <<req>>)

\* Mutant of NotAuthenticated: the guard forgets the prospect id.
NotAuthenticatedTokenOnly(self) == ~Truthy(self.access_token)

\* The guard shared by the three endpoint clients.
NotAuthenticated(self) == ~Truthy(self.access_token) \/ ~Truthy(self.prospect_id)

\* Mutant of Fetch: the 401 branch is missing, so 401 is an ordinary failure.
FetchNo401(self, endpoint, resp, value) ==
    LET req == Request("GET", endpoint, GetHeadersAuth(self), None, None, None)
    IN  IF resp.kind = "raise"
        THEN Raise(self, MapTransport(resp.exc), <<req>>)
        ELSE IF resp.status = 200 THEN Return(self, value, <<req>>)
        ELSE Raise(self, "SunrunApiError", <<req>>)

\* Mutant of Fetch: a 401 also forgets the access token.
FetchForget401(self, endpoint, resp, value) ==
    LET req == Request("GET", endpoint, GetHeadersAuth(self), None, None, None)
    IN  IF resp.kind = "raise"
        THEN Raise(self, MapTransport(resp.exc), <<req>>)
        ELSE IF resp.status = 200 THEN Return(self, value, <<req>>)
        ELSE IF resp.status = 401
             THEN Raise([self EXCEPT !.access_token = None], "SunrunAuthError", <<req>>)
        ELSE Raise(self, "SunrunApiError", <<req>>)

\* if 200 / elif 401 / else, inside `except aiohttp.ClientError`.
\* value is what the client returns for the 200 body.
Fetch(self, endpoint, resp, value) ==
    LET req == Request("GET", endpoint, GetHeadersAuth(self), None, None, None)
    IN  IF resp.kind = "raise"
        THEN Raise(self, MapTransport(resp.exc), <<req>>)
        ELSE IF resp.status = 200 THEN Return(self, value, <<req>>)
        ELSE IF resp.status = 401 THEN Raise(self, "SunrunAuthError", <<req>>)
        ELSE Raise(self, "SunrunApiError", <<req>>)

\* A 200 body of a GET endpoint carries its JSON type, which the code inspects
\* with isinstance: JList(<<...>>) is a list, JDict([...]) an object.
JList(items) == [t |-> "list", items |-> items]

JDict(obj) == [t |-> "dict", obj |-> obj]

\* get_cumulative_production: the 200 body is returned as it is.
get_cumulative_production(self, resp) ==
    IF NotAuthenticated(self)
    THEN Raise(self, "SunrunAuthError", <<>>)
    ELSE Fetch(self, "CUMULATIVE_PRODUCTION_ENDPOINT", resp,
               IF resp.kind = "http" THEN resp.body ELSE None)

\* Mutant of UnwrapMinute: an object is never unwrapped.
UnwrapMinuteBare(body) == IF body.t = "list" THEN body.items ELSE <<>>

\* data if isinstance(data, list) else data.get("data", [])
UnwrapMinute(body) == IF body.t = "list" THEN body.items ELSE GetOr(body.obj, "data", <<>>)

get_site_production_minute(self, resp) ==
    IF NotAuthenticated(self)
    THEN Raise(self, "SunrunAuthError", <<>>)
    ELSE Fetch(self, "SITE_PRODUCTION_MINUTE_ENDPOINT", resp,
               IF resp.kind = "http" THEN UnwrapMinute(resp.body) ELSE None)

get_product_offerings(self, resp) ==
    IF NotAuthenticated(self)
    THEN Raise(self, "SunrunAuthError", <<>>)
    ELSE Fetch(self, "PRODUCT_OFFERINGS_ENDPOINT", resp,
               IF resp.kind = "http" THEN resp.body ELSE None)

\* ------------------------------------------------------ snapshot aggregator

\* A number n with hundredths h, as the integer count of hundredths.
Num(n, h) == n * 100 + h

MinuteKeys == {"current_power", "consumption", "grid_export", "grid_import",
               "battery_solar", "last_update"}

DailyKeys == {"daily_production", "cumulative_production"}

\* Mutant of month_map: July is read from the correctly spelled field.
month_map_corrected ==
    [sun_exposure_jan |-> "weighted_avg_jan_shade",
     sun_exposure_feb |-> "weighted_avg_feb_shade",
     sun_exposure_mar |-> "weighted_avg_mar_shade",
     sun_exposure_apr |-> "weighted_avg_apr_shade",
     sun_exposure_may |-> "weighted_avg_may_shade",
     sun_exposure_jun |-> "weighted_avg_jun_shade",
     sun_exposure_jul |-> "weighted_avg_jul_shade",
     sun_exposure_aug |-> "weighted_avg_aug_shade",
     sun_exposure_sep |-> "weighted_avg_sep_shade",
     sun_exposure_oct |-> "weighted_avg_oct_shade",
     sun_exposure_nov |-> "weighted_avg_nov_shade",
     sun_exposure_dec |-> "weighted_avg_dec_shade"]

\* month_map: the snapshot key sun_exposure_<month> and the vendor field it is
\* read from.
month_map == [sun_exposure_jan |-> "weighted_avg_jan_shade",
              sun_exposure_feb |-> "weighted_avg_feb_shade",
              sun_exposure_mar |-> "weighted_avg_mar_shade",
              sun_exposure_apr |-> "weighted_avg_apr_shade",
              sun_exposure_may |-> "weighted_avg_may_shade",
              sun_exposure_jun |-> "weighted_avg_jun_shade",
              sun_exposure_jul |-> "weighted_avg_juy_shade",
              sun_exposure_aug |-> "weighted_avg_aug_shade",
              sun_exposure_sep |-> "weighted_avg_sep_shade",
              sun_exposure_oct |-> "weighted_avg_oct_shade",
              sun_exposure_nov |-> "weighted_avg_nov_shade",
              sun_exposure_dec |-> "weighted_avg_dec_shade"]

MonthKeys == DOMAIN month_map

\* The sun exposure keys of the result literal.
ExposureKeys == {"sun_exposure_jan", "sun_exposure_feb", "sun_exposure_mar",
                 "sun_exposure_apr", "sun_exposure_may", "sun_exposure_jun",
                 "sun_exposure_jul", "sun_exposure_aug", "sun_exposure_sep",
                 "sun_exposure_oct", "sun_exposure_nov", "sun_exposure_dec"}

OfferingKeys == {"system_size", "num_panels", "system_azimuth", "system_pitch",
                 "has_battery", "has_consumption", "pto_date", "latitude",
                 "longitude"} \cup ExposureKeys

SnapshotKeys == MinuteKeys \cup DailyKeys \cup OfferingKeys

\* Mutant of EmptyResult: the literal has no sun exposure keys.
EmptyResultWithoutExposure == [k \in SnapshotKeys \ ExposureKeys |-> None]

\* result = {...: None}
EmptyResult == [k \in SnapshotKeys |-> None]

\* Python truthiness of an optional number: None and 0 are falsy.
NumTruthy(o) == o # None /\ o[1] # 0

\* v * 1000 if v < 100 else v
ToWatts(v) == IF v < Num(100, 0) THEN v * 1000 ELSE v

\* int(float(v)): truncation toward zero.
IntOfFloat(v) == IF v >= 0 THEN (v \div 100) * 100 ELSE -(((-v) \div 100) * 100)

\* round(float(v), 1), for values that are not halfway between two tenths.
Round1(v) == IF v >= 0 THEN ((v + 5) \div 10) * 10 ELSE -(((-v + 5) \div 10) * 10)

\* Mutant of Secondary: a truthiness test, so that a reading of 0 is skipped.
SecondaryTruthy(latest, key) ==
    IF NumTruthy(Get(latest, key)) THEN Some(ToWatts(latest[key])) ELSE None

\* consumption / exportReading / importReading / batterySolar:
\* converted only when `is not None`.
Secondary(latest, key) ==
    IF Get(latest, key) # None THEN Some(ToWatts(latest[key])) ELSE None

\* Mutant of LatestPoint: the oldest point is taken.
OldestPoint(minute_data) == minute_data[1]

\* latest = minute_data[-1]
LatestPoint(minute_data) == minute_data[Len(minute_data)]

\* The minute block applied to result (api.py 371-396).  Each
\* result[key] = value sets the key, whether the literal had it or not.
ApplyMinute(result, minute_data) ==
    IF minute_data = <<>> THEN result
    ELSE LET latest == LatestPoint(minute_data)
             solar == IF NumTruthy(Get(latest, "solar")) THEN latest["solar"]
                      ELSE IF NumTruthy(Get(latest, "pvSolar")) THEN latest["pvSolar"]
                      ELSE 0
         IN  [current_power |-> Some(ToWatts(solar)),
              consumption |-> Secondary(latest, "consumption"),
              grid_export |-> Secondary(latest, "exportReading"),
              grid_import |-> Secondary(latest, "importReading"),
              battery_solar |-> Secondary(latest, "batterySolar"),
              last_update |-> Get(latest, "timestamp")] @@ result

\* record.get("timestamp", "")[:10]
DatePrefix(record) ==
    LET ts == GetOr(record, "timestamp", <<>>)
    IN  SubSeq(ts, 1, IF Len(ts) < 10 THEN Len(ts) ELSE 10)

\* Mutant of UseRecord: no search for today, the last record is used.
UseLatestRecord(cumulative, today) == cumulative[Len(cumulative)]

\* The first record dated today, else the last record of the list.
UseRecord(cumulative, today) ==
    LET hits == {i \in 1..Len(cumulative) : DatePrefix(cumulative[i]) = today}
    IN  IF hits # {}
        THEN cumulative[CHOOSE i \in hits : \A j \in hits : i <= j]
        ELSE cumulative[Len(cumulative)]

\* The cumulative block applied to result (api.py 403-423).
ApplyDaily(result, cumulative_data, today) ==
    IF cumulative_data.t # "list" \/ cumulative_data.items = <<>> THEN result
    ELSE LET use_record == UseRecord(cumulative_data.items, today)
         IN  [daily_production |-> Get(use_record, "deliveredKwh"),
              cumulative_production |-> Get(use_record, "cumulativeKwh")] @@ result

\* result[key] = value under a condition: the key is set only when the
\* condition holds.
SetIf(cond, key, value) == IF cond THEN key :> value ELSE EmptyObj

\* The offerings block applied to result (api.py 431-465): the fields set
\* in any case, those set for a truthy number, and a month for each vendor
\* field of month_map that is there.
ApplyOfferings(result, offerings) ==
    IF offerings.obj = EmptyObj THEN result
    ELSE LET o == offerings.obj
             months == {k \in MonthKeys : Get(o, month_map[k]) # None}
         IN  [system_size |-> Get(o, "system_size"),
              has_battery |-> Some(GetOr(o, "brightBox", FALSE)),
              has_consumption |-> Some(GetOr(o, "hasConsumption", FALSE)),
              pto_date |-> Get(o, "ptoDate"),
              latitude |-> Get(o, "lat"),
              longitude |-> Get(o, "lon")]
             @@ SetIf(NumTruthy(Get(o, "numPanels")), "num_panels",
                      Some(IntOfFloat(GetOr(o, "numPanels", 0))))
             @@ SetIf(NumTruthy(Get(o, "system_azimuth")), "system_azimuth",
                      Some(Round1(GetOr(o, "system_azimuth", 0))))
             @@ SetIf(NumTruthy(Get(o, "system_pitch")), "system_pitch",
                      Some(Round1(GetOr(o, "system_pitch", 0))))
             @@ [k \in months |-> Some(Round1(o[month_map[k]]))]
             @@ result

\* Mutant of TryBlock: no except clause, a failed fetch aborts the call.
TryBlockAbort(acc, r, applied) ==
    IF acc.exc # "none" THEN acc
    ELSE IF r.exc = "none"
         THEN [result |-> applied, exc |-> "none", net |-> acc.net \o r.net]
    ELSE [result |-> acc.result, exc |-> r.exc, net |-> acc.net \o r.net]

\* One `try: ... except SunrunApiError` block of get_latest_data: the fetch
\* result r is applied to the running call state acc = [result, exc, net];
\* once an exception has escaped, the later blocks do not run.
TryBlock(acc, r, applied) ==
    IF acc.exc # "none" THEN acc
    ELSE IF r.exc = "none"
         THEN [result |-> applied, exc |-> "none", net |-> acc.net \o r.net]
    ELSE IF IsSunrunApiError(r.exc)
         THEN [result |-> acc.result, exc |-> "none", net |-> acc.net \o r.net]
    ELSE [result |-> acc.result, exc |-> r.exc, net |-> acc.net \o r.net]

\* get_latest_data: minute, then cumulative, then offerings.
get_latest_data(self, minuteResp, dailyResp, offerResp, today) ==
    LET acc0 == [result |-> EmptyResult, exc |-> "none", net |-> <<>>]
        r1 == get_site_production_minute(self, minuteResp)
        acc1 == TryBlock(acc0, r1,
                    IF r1.exc = "none" THEN ApplyMinute(acc0.result, r1.ret)
                    ELSE acc0.result)
        r2 == get_cumulative_production(r1.self, dailyResp)
        acc2 == TryBlock(acc1, r2,
                    IF r2.exc = "none" THEN ApplyDaily(acc1.result, r2.ret, today)
                    ELSE acc1.result)
        r3 == get_product_offerings(r2.self, offerResp)
        acc3 == TryBlock(acc2, r3,
                    IF r3.exc = "none" THEN ApplyOfferings(acc2.result, r3.ret)
                    ELSE acc2.result)
        \* the instance as the last fetch that ran left it
        self3 == IF acc1.exc # "none" THEN r1.self
                 ELSE IF acc2.exc # "none" THEN r2.self
                 ELSE r3.self
    IN  IF acc3.exc = "none"
        THEN Return(self3, acc3.result, acc3.net)
        ELSE Raise(self3, acc3.exc, acc3.net)

\* Mutant of test_connection: every SunrunApiError counts as bad credentials.
test_connection_strict(self, resp) ==
    LET r == get_cumulative_production(self, resp)
    IN  IF r.exc = "none" THEN Return(r.self, TRUE, r.net)
        ELSE IF IsSunrunApiError(r.exc) THEN Return(r.self, FALSE, r.net)
        ELSE Raise(r.self, r.exc, r.net)

\* test_connection: except SunrunAuthError first, then except SunrunApiError.
test_connection(self, resp) ==
    LET r == get_cumulative_production(self, resp)
    IN  IF r.exc = "none" THEN Return(r.self, TRUE, r.net)
        ELSE IF IsSunrunAuthError(r.exc) THEN Return(r.self, FALSE, r.net)
        ELSE IF IsSunrunApiError(r.exc) THEN Return(r.self, TRUE, r.net)
        ELSE Raise(r.self, r.exc, r.net)

\* ---------------------------------------------------------- poll coordinator

\* Mutant of MapPollOutcome: no `except Exception` clause.
MapPollOutcomeNoCatchAll(r) ==
    IF r.exc = "none" THEN r
    ELSE IF IsSunrunAuthError(r.exc) THEN Raise(r.self, "ConfigEntryAuthFailed", r.net)
    ELSE IF IsSunrunApiError(r.exc) THEN Raise(r.self, "UpdateFailed", r.net)
    ELSE r

\* The try/except of _async_update_data applied to the outcome r of
\* get_latest_data: except SunrunAuthError, except SunrunApiError, except
\* Exception.
MapPollOutcome(r) ==
    IF r.exc = "none" THEN r
    ELSE IF IsSunrunAuthError(r.exc) THEN Raise(r.self, "ConfigEntryAuthFailed", r.net)
    ELSE IF IsSunrunApiError(r.exc) THEN Raise(r.self, "UpdateFailed", r.net)
    ELSE Raise(r.self, "UpdateFailed", r.net)

\* SunrunDataUpdateCoordinator._async_update_data
async_update_data(self, minuteResp, dailyResp, offerResp, today) ==
    MapPollOutcome(get_latest_data(self, minuteResp, dailyResp, offerResp, today))

\* ---------------------------------------------------------------- config flow

Digits == {"0", "1", "2", "3", "4", "5", "6", "7", "8", "9"}

Whitespace == {" "}

\* Characters outside ASCII are written by name: a decimal digit of another
\* script (ARABIC-INDIC DIGIT THREE) and a digit that is not a decimal
\* (SUPERSCRIPT TWO).
OtherDecimals == {"arabic3"}

SuperscriptDigits == {"sup2"}

\* What \d matches in a str pattern: the decimal digits of every script.
IsDecimal(c) == c \in Digits \cup OtherDecimals

\* str.isdigit() for one character: decimals, and digits such as
\* superscripts.
IsDigit(c) == c \in Digits \cup OtherDecimals \cup SuperscriptDigits

\* Mutant of format_phone_number: the country code is added whatever the
\* number of digits.
format_phone_number_always1(phone) ==
    <<"+", "1">> \o SelectSeq(phone, IsDecimal)

\* format_phone_number: re.sub(r"\D", "", phone), a leading 1 for ten
\* digits, then "+".
format_phone_number(phone) ==
    LET digits == SelectSeq(phone, IsDecimal)
    IN  <<"+">> \o (IF Len(digits) = 10 THEN <<"1">> \o digits ELSE digits)

\* validate_phone_number: len(formatted) == 12 and formatted.startswith("+1")
validate_phone_number(phone) ==
    LET formatted == format_phone_number(phone)
    IN  Len(formatted) = 12 /\ SubSeq(formatted, 1, 2) = <<"+", "1">>

RECURSIVE StripLeft(_)
StripLeft(str) ==
    IF str # <<>> /\ str[1] \in Whitespace THEN StripLeft(Tail(str)) ELSE str

RECURSIVE StripRight(_)
StripRight(str) ==
    IF str # <<>> /\ str[Len(str)] \in Whitespace
    THEN StripRight(SubSeq(str, 1, Len(str) - 1)) ELSE str

\* str.strip()
Strip(str) == StripRight(StripLeft(str))

\* Mutant of InvalidCode: the length is not checked.
InvalidCodeAnyLength(code) ==
    code = <<>> \/ \E i \in 1..Len(code) : ~IsDigit(code[i])

\* not code or len(code) != 6 or not code.isdigit()
InvalidCode(code) ==
    code = <<>> \/ Len(code) # 6 \/ \E i \in 1..Len(code) : ~IsDigit(code[i])

\* SunrunConfigFlow.__init__, before any step has run.  step is the step
\* whose form is shown, api the name of the flow's SunrunApi among the
\* instances, entry the unique id of the entry a reauth flow was started
\* for (the flow's context).
NoFlow == [step |-> "none", api |-> None, phone |-> None, entry |-> None]

\* No config entry, no instance.
NoEntries == [uid \in {} |-> None]

NoInstances == [ref \in {} |-> NewApi(None, None)]

\* The name of the instance a flow builds for itself.
FlowRef == "flow"

\* Mutant of NewFlowInstance: a reauth flow works on the instance of the
\* running coordinator of its entry.
SharedFlowInstance(heap, entry) ==
    IF entry = None
    THEN [ref |-> FlowRef, heap |-> (FlowRef :> NewApi(None, None)) @@ heap]
    ELSE [ref |-> entry[1], heap |-> heap]

\* self._api = SunrunApi(session): a new instance of the flow's own, without
\* credentials, whatever instance serves the entry.
NewFlowInstance(heap, entry) ==
    [ref |-> FlowRef, heap |-> (FlowRef :> NewApi(None, None)) @@ heap]

\* SunrunDataUpdateCoordinator.__init__: the instance of an entry's
\* coordinator is built from the entry's data.
CoordinatorApi(data) == NewApi(data.access_token, data.prospect_id)

\* Flow results.
ShowForm(step_id, errors) ==
    [type |-> "form", step_id |-> step_id, errors |-> errors, reason |-> ""]

CreateEntryResult == [type |-> "create_entry", step_id |-> "", errors |-> None, reason |-> ""]

AbortResult(reason) == [type |-> "abort", step_id |-> "", errors |-> None, reason |-> reason]

\* What a step leaves behind: the flow, the instances, the entries, the
\* result shown and the requests sent.
StepResult(self, heap, ents, ret, net) ==
    [flow |-> self, heap |-> heap, entries |-> ents, ret |-> ret, net |-> net]

\* errors["base"] for an exception of the api: except SunrunApiError first
\* (async_step_user, async_step_reauth_confirm), then except Exception.
RequestErrorKey(exc) == IF IsSunrunApiError(exc) THEN "cannot_connect" ELSE "unknown"

\* Mutant of VerifyErrorKey: except SunrunApiError comes first.
VerifyErrorKeyApiFirst(exc) ==
    IF IsSunrunApiError(exc) THEN "cannot_connect"
    ELSE IF IsSunrunAuthError(exc) THEN "invalid_auth"
    ELSE "unknown"

\* errors["base"] at the OTP steps: except SunrunAuthError, except
\* SunrunApiError, except Exception.
VerifyErrorKey(exc) ==
    IF IsSunrunAuthError(exc) THEN "invalid_auth"
    ELSE IF IsSunrunApiError(exc) THEN "cannot_connect"
    ELSE "unknown"

\* Mutant of EntryData: the phone number is left out.
EntryDataWithoutPhone(phone, auth_data) ==
    [phone |-> None, access_token |-> auth_data.access_token,
     prospect_id |-> auth_data.prospect_id, pto_date |-> auth_data.pto_date]

\* The data of the entry written after a verify_otp that returned auth_data.
EntryData(phone, auth_data) ==
    [phone |-> phone, access_token |-> auth_data.access_token,
     prospect_id |-> auth_data.prospect_id, pto_date |-> auth_data.pto_date]

\* The integration is set up (or set up again on reload) for the entry uid:
\* a coordinator is built for it, with an instance of its own.
SetupEntry(heap, uid, data) == (uid :> CoordinatorApi(data)) @@ heap

\* async_step_otp.  A code that passes the check is verified on the flow's
\* instance; the account of a verified code is the unique id, and
\* _abort_if_unique_id_configured raises AbortFlow inside the try block,
\* where `except Exception` turns it into the form error "unknown".
async_step_otp(self, heap, ents, user_input, resp) ==
    LET shown == [self EXCEPT !.step = "otp"]
    IN  IF user_input = None
        THEN StepResult(shown, heap, ents, ShowForm("otp", None), <<>>)
        ELSE
        LET code == Strip(user_input[1])
        IN  IF InvalidCode(code)
            THEN StepResult(shown, heap, ents, ShowForm("otp", Some("invalid_code")), <<>>)
            ELSE
            LET ref == self.api[1]
                r == verify_otp(heap[ref], self.phone[1], code, resp)
                heap2 == [heap EXCEPT ![ref] = r.self]
            IN  IF r.exc # "none"
                THEN StepResult(shown, heap2, ents,
                                ShowForm("otp", Some(VerifyErrorKey(r.exc))), r.net)
                ELSE IF r.ret.prospect_id[1] \in DOMAIN ents
                THEN StepResult(shown, heap2, ents, ShowForm("otp", Some("unknown")), r.net)
                ELSE LET uid == r.ret.prospect_id[1]
                         data == EntryData(self.phone, r.ret)
                     IN  StepResult([self EXCEPT !.step = "finished"],
                                    SetupEntry(heap2, uid, data), (uid :> data) @@ ents,
                                    CreateEntryResult, r.net)

\* async_step_user.  The value request_otp returns is not looked at: unless
\* it raises, the OTP form is shown.
async_step_user(self, heap, ents, user_input, resp) ==
    LET shown == [self EXCEPT !.step = "user"]
    IN  IF user_input = None
        THEN StepResult(shown, heap, ents, ShowForm("user", None), <<>>)
        ELSE IF ~validate_phone_number(user_input[1])
        THEN StepResult(shown, heap, ents, ShowForm("user", Some("invalid_phone")), <<>>)
        ELSE
        LET phone == format_phone_number(user_input[1])
            inst == NewFlowInstance(heap, self.entry)
            self2 == [shown EXCEPT !.phone = Some(phone), !.api = Some(inst.ref)]
            r == request_otp(inst.heap[inst.ref], phone, resp)
            heap2 == [inst.heap EXCEPT ![inst.ref] = r.self]
        IN  IF r.exc = "none"
            THEN LET next == async_step_otp(self2, heap2, ents, None, resp)
                 IN  [next EXCEPT !.net = r.net]
            ELSE StepResult(self2, heap2, ents,
                            ShowForm("user", Some(RequestErrorKey(r.exc))), r.net)

\* Mutant of ExistingEntry: the entry the flow was started for.
EntryOfFlow(self, ents, uid) == self.entry

\* existing_entry = await self.async_set_unique_id(auth_data["prospect_id"]):
\* the entry whose unique id is the verified account, if there is one.
ExistingEntry(self, ents, uid) == IF uid \in DOMAIN ents THEN Some(uid) ELSE None

\* async_step_reauth_otp.  A verified code updates and reloads the entry
\* whose unique id is the verified account; without such an entry the flow
\* aborts with reauth_failed.
async_step_reauth_otp(self, heap, ents, user_input, resp) ==
    LET shown == [self EXCEPT !.step = "reauth_otp"]
    IN  IF user_input = None
        THEN StepResult(shown, heap, ents, ShowForm("reauth_otp", None), <<>>)
        ELSE
        LET code == Strip(user_input[1])
        IN  IF InvalidCode(code)
            THEN StepResult(shown, heap, ents,
                            ShowForm("reauth_otp", Some("invalid_code")), <<>>)
            ELSE
            LET ref == self.api[1]
                r == verify_otp(heap[ref], self.phone[1], code, resp)
                heap2 == [heap EXCEPT ![ref] = r.self]
            IN  IF r.exc # "none"
                THEN StepResult(shown, heap2, ents,
                                ShowForm("reauth_otp", Some(VerifyErrorKey(r.exc))), r.net)
                ELSE IF ExistingEntry(self, ents, r.ret.prospect_id[1]) # None
                THEN LET uid == ExistingEntry(self, ents, r.ret.prospect_id[1])[1]
                         data == EntryData(self.phone, r.ret)
                     IN  StepResult([self EXCEPT !.step = "finished"],
                                    SetupEntry(heap2, uid, data),
                                    [ents EXCEPT ![uid] = data],
                                    AbortResult("reauth_successful"), r.net)
                ELSE StepResult([self EXCEPT !.step = "finished"], heap2, ents,
                                AbortResult("reauth_failed"), r.net)

\* async_step_reauth_confirm.  As in async_step_user, the value request_otp
\* returns is not looked at.
async_step_reauth_confirm(self, heap, ents, user_input, resp) ==
    LET shown == [self EXCEPT !.step = "reauth_confirm"]
    IN  IF user_input = None
        THEN StepResult(shown, heap, ents, ShowForm("reauth_confirm", None), <<>>)
        ELSE
        LET inst == NewFlowInstance(heap, self.entry)
            self2 == [shown EXCEPT !.api = Some(inst.ref)]
            r == request_otp(inst.heap[inst.ref], self.phone[1], resp)
            heap2 == [inst.heap EXCEPT ![inst.ref] = r.self]
        IN  IF r.exc = "none"
            THEN LET next == async_step_reauth_otp(self2, heap2, ents, None, resp)
                 IN  [next EXCEPT !.net = r.net]
            ELSE StepResult(self2, heap2, ents,
                            ShowForm("reauth_confirm", Some(RequestErrorKey(r.exc))), r.net)

\* async_step_reauth: the phone of the entry's data, then the confirmation
\* form.  uid is the entry the flow was started for.
async_step_reauth(heap, ents, uid, resp) ==
    async_step_reauth_confirm([NoFlow EXCEPT !.phone = ents[uid].phone, !.entry = Some(uid)],
                              heap, ents, None, resp)

\* ------------------------------------------------------------------ inputs

Phones == {"+13145551234"}

Codes == {"123456"}

\* 200 bodies of the challenge endpoint: the token at the top level, under
\* `data`, empty, or nowhere.
OtpBodies == {EmptyObj,
              [token |-> "X1"],
              [token |-> "X2"],
              [token |-> ""],
              [data |-> [token |-> "X1"]],
              [data |-> [authToken |-> "X2"]],
              [session |-> "S1", token |-> "X1", data |-> [token |-> "X2"]]}

OtpResps == {Http(200, b) : b \in OtpBodies}
            \cup {Http(st, EmptyObj) : st \in ErrorStatuses}
            \cup {Fail(e) : e \in TransportErrors}

Opp1 == [prospect_id |-> "P1", contract |-> [ptoDate |-> "2024-05-01"]]

Opp2 == [prospect_id |-> "P2", contract |-> [ptoDate |-> "2023-03-03"]]

\* An entry without a prospect id.
OppNoId == [contract |-> [ptoDate |-> "2022-02-02"]]

\* The longest opportunitiesWithContracts list answered.
MaxOpps == 2

OppLists == UNION {[1..n -> {Opp1, Opp2, OppNoId}] : n \in 0..MaxOpps}

\* 200 bodies of the respond endpoint.
VerifyBodies ==
    {[data |-> d, opportunitiesWithContracts |-> l] :
        d \in {EmptyObj, [accessToken |-> ""], [accessToken |-> "A1"], [accessToken |-> "A2"]},
        l \in OppLists}
    \cup {[data |-> [accessToken |-> "A1"]], [opportunitiesWithContracts |-> <<Opp1>>], EmptyObj}

VerifyResps == {Http(200, b) : b \in VerifyBodies}
               \cup {Http(st, EmptyObj) : st \in ErrorStatuses}
               \cup {Fail(e) : e \in TransportErrors}

Day0 == <<"2", "0", "2", "4", "-", "1", "2", "-", "3", "1">>

Day1 == <<"2", "0", "2", "5", "-", "0", "1", "-", "0", "1">>

Midnight == <<"T", "0", "0", ":", "0", "0">>

Todays == {Day1}

Point1 == [solar |-> Num(3, 20), timestamp |-> "T1"]

Point2 == [pvSolar |-> Num(150, 0), consumption |-> Num(0, 0), exportReading |-> Num(99, 99),
           importReading |-> Num(100, 0), batterySolar |-> Num(1, 50), timestamp |-> "T2"]

MinuteBodies == {JList(<<>>), JList(<<Point2, Point1>>), JDict([data |-> <<Point1, Point2>>]),
                 JDict(EmptyObj)}

Rec0 == [timestamp |-> Day0 \o Midnight, deliveredKwh |-> Num(7, 0), cumulativeKwh |-> Num(19, 50)]

Rec1 == [timestamp |-> Day1 \o Midnight, deliveredKwh |-> Num(3, 0), cumulativeKwh |-> Num(22, 50)]

DailyBodies == {JList(<<>>), JList(<<Rec0>>), JList(<<Rec1, Rec0>>), JList(<<Rec0, Rec1>>),
                JDict(EmptyObj)}

Offer1 == [system_size |-> Num(6, 40), numPanels |-> Num(24, 0), system_azimuth |-> Num(180, 24),
           system_pitch |-> Num(22, 56), brightBox |-> TRUE, ptoDate |-> "2024-05-01",
           lat |-> Num(38, 63), lon |-> -Num(91, 20),
           weighted_avg_jan_shade |-> Num(81, 27), weighted_avg_juy_shade |-> Num(97, 4)]

Offer2 == [system_size |-> Num(4, 0), system_azimuth |-> Num(0, 0),
           weighted_avg_jul_shade |-> Num(95, 0)]

OfferBodies == {JDict(EmptyObj), JDict(Offer1), JDict(Offer2)}

FetchResps(bodies) == {Http(200, b) : b \in bodies}
                      \cup {Http(st, JDict(EmptyObj)) : st \in ErrorStatuses}
                      \cup {Fail(e) : e \in TransportErrors}

\* What one source answers during a poll: one success and every failure kind.
PollResps(body) == {Http(200, body), Http(401, JDict(EmptyObj)), Http(500, JDict(EmptyObj)),
                    Fail("ClientConnectionError"), Fail("TimeoutError")}

\* ------------------------------------------------------------ state machine

\* An instance is built without credentials (config flow) or with the
\* credentials of a config entry (coordinator).
InitApis == {NewApi(None, None), NewApi(Some("A0"), Some("P0"))}

Init ==
    /\ api \in InitApis
    /\ last = [op |-> "init", pre |-> api, in |-> None, exc |-> "none",
               ret |-> None, net |-> <<>>]
    /\ flow = NoFlow
    /\ entries = NoEntries

\* A call op(in) on the instance with outcome r.
Do(op, in, r) ==
    /\ api' = r.self
    /\ last' = [op |-> op, pre |-> api, in |-> in, exc |-> r.exc, ret |-> r.ret,
                net |-> r.net]
    /\ UNCHANGED <<flow, entries>>

RequestOtp ==
    \E phone \in Phones, resp \in OtpResps :
        Do("request_otp", [phone |-> phone, resp |-> resp], request_otp(api, phone, resp))

VerifyOtp ==
    \E phone \in Phones, code \in Codes, resp \in VerifyResps :
        Do("verify_otp", [phone |-> phone, code |-> code, resp |-> resp],
           verify_otp(api, phone, code, resp))

GetCumulativeProduction ==
    \E resp \in FetchResps(DailyBodies) :
        Do("get_cumulative_production", [resp |-> resp], get_cumulative_production(api, resp))

GetSiteProductionMinute ==
    \E resp \in FetchResps(MinuteBodies) :
        Do("get_site_production_minute", [resp |-> resp], get_site_production_minute(api, resp))

GetProductOfferings ==
    \E resp \in FetchResps(OfferBodies) :
        Do("get_product_offerings", [resp |-> resp], get_product_offerings(api, resp))

\* The 200 bodies of a poll.
PollMinuteBody == JList(<<Point2, Point1>>)

PollDailyBody == JList(<<Rec1, Rec0>>)

PollOfferBody == JDict(Offer1)

PollInputs ==
    [minute : PollResps(PollMinuteBody),
     daily : PollResps(PollDailyBody),
     offer : PollResps(PollOfferBody),
     today : Todays]

GetLatestData ==
    \E in \in PollInputs :
        Do("get_latest_data", in, get_latest_data(api, in.minute, in.daily, in.offer, in.today))

TestConnection ==
    \E resp \in FetchResps(DailyBodies) :
        Do("test_connection", [resp |-> resp], test_connection(api, resp))

AsyncUpdateData ==
    \E in \in PollInputs :
        Do("_async_update_data", in,
           async_update_data(api, in.minute, in.daily, in.offer, in.today))

\* The instance under its own operations: the OTP flow, the three endpoint
\* clients and the connection test, in any order.
Next ==
    \/ RequestOtp
    \/ VerifyOtp
    \/ GetCumulativeProduction
    \/ GetSiteProductionMinute
    \/ GetProductOfferings
    \/ TestConnection

Spec == Init /\ [][Next]_vars

\* The OTP flow with one answer of each kind, for the poll specification:
\* it brings the instance into every kind of session state (no credentials,
\* only an access token, both credentials, with or without a pending token).
PollOtpResps == {Http(200, [token |-> "X1"]), Http(200, EmptyObj)}

PollVerifyResps == {Http(200, [data |-> [accessToken |-> "A1"],
                               opportunitiesWithContracts |-> <<Opp1>>]),
                    Http(200, [data |-> [accessToken |-> "A1"],
                               opportunitiesWithContracts |-> <<>>]),
                    Http(401, EmptyObj)}

PollRequestOtp ==
    \E phone \in Phones, resp \in PollOtpResps :
        Do("request_otp", [phone |-> phone, resp |-> resp], request_otp(api, phone, resp))

PollVerifyOtp ==
    \E phone \in Phones, code \in Codes, resp \in PollVerifyResps :
        Do("verify_otp", [phone |-> phone, code |-> code, resp |-> resp],
           verify_otp(api, phone, code, resp))

\* Poll cycles of the coordinator and direct aggregator calls, between OTP flows.
NextPoll ==
    \/ PollRequestOtp
    \/ PollVerifyOtp
    \/ GetLatestData
    \/ AsyncUpdateData

SpecPoll == Init /\ [][NextPoll]_vars

\* The whole fetch path (the three clients, the aggregator, the connection
\* test) between OTP flows on the same instance.
NextFetch ==
    \/ PollRequestOtp
    \/ PollVerifyOtp
    \/ GetCumulativeProduction
    \/ GetSiteProductionMinute
    \/ GetProductOfferings
    \/ GetLatestData
    \/ TestConnection

SpecFetch == Init /\ [][NextFetch]_vars

\* ------------------------------------------------- the minute block alone

\* One optional field of a JSON object.
Field(key, o) == IF o = None THEN EmptyObj ELSE [k \in {key} |-> o[1]]

\* Readings around the thresholds of the minute block: 0 (falsy), kilowatts
\* below 100, exactly 100, and a negative reading.
SolarReadings == {None, Some(Num(0, 0)), Some(Num(3, 20)), Some(Num(100, 0)), Some(-Num(1, 50))}

PvSolarReadings == {None, Some(Num(150, 0)), Some(Num(2, 50))}

SecondaryReadings == {None, Some(Num(0, 0)), Some(Num(99, 99)), Some(Num(100, 0))}

\* A minute point with every combination of present and absent readings.
MinutePoints ==
    {Field("solar", s) @@ Field("pvSolar", p) @@ Field("consumption", c)
        @@ Field("exportReading", e) @@ Field("importReading", i)
        @@ Field("batterySolar", b) @@ [timestamp |-> "T3"] :
        s \in SolarReadings, p \in PvSolarReadings, c \in SecondaryReadings,
        e \in SecondaryReadings, i \in SecondaryReadings, b \in SecondaryReadings}

MaxPoints == 3

\* Lists of up to MaxPoints points, in any order of their timestamps.
PointLists == UNION {[1..n -> {Point1, Point2}] : n \in 0..MaxPoints}

\* Minute lists: every kind of point alone, and the longer lists.
MinuteLists == {<<p>> : p \in MinutePoints} \cup PointLists

\* The two shapes of the minute endpoint's body: the bare list, or the list
\* under "data"; and an object without "data".
MinuteAnswers ==
    {Http(200, JList(l)) : l \in MinuteLists}
    \cup {Http(200, JDict([data |-> l])) : l \in MinuteLists}
    \cup {Http(200, JDict(EmptyObj))}

MinuteInputs ==
    [minute : MinuteAnswers,
     daily : {Http(200, PollDailyBody)},
     offer : {Http(200, PollOfferBody)},
     today : Todays]

\* An authenticated instance about to aggregate one answer of the minute
\* endpoint.
InitMinute ==
    /\ api = NewApi(Some("A0"), Some("P0"))
    /\ last \in {[op |-> "pending", pre |-> NewApi(Some("A0"), Some("P0")), in |-> in,
                  exc |-> "none", ret |-> None, net |-> <<>>] : in \in MinuteInputs}
    /\ flow = NoFlow
    /\ entries = NoEntries

\* get_latest_data() on the pending answers.
AggregateMinute ==
    /\ last.op = "pending"
    /\ Do("get_latest_data", last.in,
          get_latest_data(api, last.in.minute, last.in.daily, last.in.offer, last.in.today))

NextMinute == AggregateMinute

SpecMinute == InitMinute /\ [][NextMinute]_vars

\* ------------------------------------------------- the daily block alone

Day2 == <<"2", "0", "2", "5", "-", "0", "1", "-", "0", "2">>

\* A second record of Day1, a record of Day2 whose timestamp is the bare
\* date, and a record without a timestamp.
Rec1b == [timestamp |-> Day1 \o Midnight, deliveredKwh |-> Num(4, 0), cumulativeKwh |-> Num(23, 50)]

Rec2 == [timestamp |-> Day2, deliveredKwh |-> Num(5, 0), cumulativeKwh |-> Num(27, 50)]

RecNoTimestamp == [deliveredKwh |-> Num(1, 0), cumulativeKwh |-> Num(2, 0)]

MaxRecords == 3

\* Daily lists of up to MaxRecords records, in any order of their dates.
DailyLists ==
    UNION {[1..n -> {Rec0, Rec1, Rec1b, Rec2, RecNoTimestamp}] : n \in 0..MaxRecords}

\* datetime.now().strftime("%Y-%m-%d")
DailyTodays == {Day1, Day2}

DailyInputs ==
    [minute : {Http(200, PollMinuteBody)},
     daily : {Http(200, JList(l)) : l \in DailyLists} \cup {Http(200, JDict(EmptyObj))},
     offer : {Http(200, PollOfferBody)},
     today : DailyTodays]

\* An authenticated instance about to aggregate one answer of the daily
\* endpoint.
InitDaily ==
    /\ api = NewApi(Some("A0"), Some("P0"))
    /\ last \in {[op |-> "pending", pre |-> NewApi(Some("A0"), Some("P0")), in |-> in,
                  exc |-> "none", ret |-> None, net |-> <<>>] : in \in DailyInputs}
    /\ flow = NoFlow
    /\ entries = NoEntries

\* get_latest_data() on the pending answers.
AggregateDaily ==
    /\ last.op = "pending"
    /\ Do("get_latest_data", last.in,
          get_latest_data(api, last.in.minute, last.in.daily, last.in.offer, last.in.today))

NextDaily == AggregateDaily

SpecDaily == InitDaily /\ [][NextDaily]_vars

\* --------------------------------------------- the offerings block alone

\* Values of the offerings fields: absent, zero and ordinary ones.
PanelCounts == {None, Some(Num(0, 0)), Some(Num(24, 0))}

Azimuths == {None, Some(Num(0, 0)), Some(Num(180, 24))}

Pitches == {None, Some(Num(0, 0)), Some(Num(22, 56))}

Flags == {None, Some(TRUE), Some(FALSE)}

\* The system part of an offerings object, in every combination.
SystemOfferings ==
    {Field("system_size", sz) @@ Field("numPanels", n) @@ Field("system_azimuth", az)
        @@ Field("system_pitch", pi) @@ Field("brightBox", bb)
        @@ Field("hasConsumption", hc) @@ Field("ptoDate", pto) :
        sz \in {None, Some(Num(6, 40))}, n \in PanelCounts, az \in Azimuths,
        pi \in Pitches, bb \in Flags, hc \in Flags,
        pto \in {None, Some("2024-05-01")}}

\* Objects that carry one shading field only, under each name the vendor
\* uses and under the correct spelling of July.
ShadeFields == {month_map[k] : k \in MonthKeys} \cup {"weighted_avg_jul_shade"}

ShadeOfferings ==
    {Field(f, Some(v)) : f \in ShadeFields, v \in {Num(0, 0), Num(81, 27), Num(97, 4)}}
    \cup {[weighted_avg_jul_shade |-> Num(95, 0), weighted_avg_juy_shade |-> Num(97, 4)],
          [weighted_avg_jul_shade |-> Num(95, 0), lat |-> Num(38, 63), lon |-> -Num(91, 20)]}

\* What the offerings endpoint answers: the objects above (the object
\* without any field is one of them), and two failures.
OfferAnswers ==
    {Http(200, JDict(o)) : o \in SystemOfferings \cup ShadeOfferings \cup {Offer1, Offer2}}
    \cup {Http(500, JDict(EmptyObj)), Fail("ClientConnectionError")}

OfferInputs ==
    [minute : {Http(200, PollMinuteBody)},
     daily : {Http(200, PollDailyBody)},
     offer : OfferAnswers,
     today : Todays]

\* An authenticated instance about to aggregate one answer of the offerings
\* endpoint.
InitOffer ==
    /\ api = NewApi(Some("A0"), Some("P0"))
    /\ last \in {[op |-> "pending", pre |-> NewApi(Some("A0"), Some("P0")), in |-> in,
                  exc |-> "none", ret |-> None, net |-> <<>>] : in \in OfferInputs}
    /\ flow = NoFlow
    /\ entries = NoEntries

\* get_latest_data() on the pending answers.
AggregateOffer ==
    /\ last.op = "pending"
    /\ Do("get_latest_data", last.in,
          get_latest_data(api, last.in.minute, last.in.daily, last.in.offer, last.in.today))

NextOffer == AggregateOffer

SpecOffer == InitOffer /\ [][NextOffer]_vars

\* --------------------------------------------- config flow, entries, polls

\* Phone numbers as typed: ten digits with punctuation, eleven digits, and
\* seven digits.
FlowPhones == {<<"(", "3", "1", "4", ")", " ", "5", "5", "5", "-", "1", "2", "3", "4">>,
               <<"+", "1", "3", "1", "4", "5", "5", "5", "1", "2", "3", "4">>,
               <<"5", "5", "5", "-", "1", "2", "3", "4">>}

\* Codes as typed: six digits, the same with blanks around, five digits, a
\* letter among the digits, a superscript among the digits, nothing.
FlowCodes == {<<"1", "2", "3", "4", "5", "6">>,
              <<" ", "1", "2", "3", "4", "5", "6", " ">>,
              <<"1", "2", "3", "4", "5">>,
              <<"1", "2", "3", "4", "5", "a">>,
              <<"1", "2", "3", "4", "5", "sup2">>,
              <<>>}

\* Answers of the challenge endpoint: a token, a 200 without token, a
\* rejection, a connection error, a timeout.
FlowOtpResps == {Http(200, [token |-> "X1"]), Http(200, EmptyObj), Http(401, EmptyObj),
                 Fail("ClientConnectionError"), Fail("TimeoutError")}

\* Answers of the respond endpoint: each 200 carries an access token of its
\* own, for account P1 (twice), for account P2, and with no account at all.
FlowVerifyResps ==
    {Http(200, [data |-> [accessToken |-> "A1"], opportunitiesWithContracts |-> <<Opp1>>]),
     Http(200, [data |-> [accessToken |-> "A2"], opportunitiesWithContracts |-> <<Opp1, Opp2>>]),
     Http(200, [data |-> [accessToken |-> "A3"], opportunitiesWithContracts |-> <<Opp2>>]),
     Http(200, [data |-> [accessToken |-> "A4"], opportunitiesWithContracts |-> <<>>]),
     Http(401, EmptyObj),
     Fail("ClientConnectionError"), Fail("TimeoutError")}

\* Answers to one poll: all three succeed, the session is dead, a timeout.
FlowPolls ==
    [minute : {Http(200, PollMinuteBody), Http(401, JDict(EmptyObj)), Fail("TimeoutError")},
     daily : {Http(200, PollDailyBody)},
     offer : {Http(200, PollOfferBody)},
     today : Todays]

\* Nothing is configured and no flow is open.
InitFlow ==
    /\ api = NoInstances
    /\ flow = NoFlow
    /\ entries = NoEntries
    /\ last = [op |-> "init", pre |-> [flow |-> NoFlow, api |-> NoInstances, entries |-> NoEntries],
               in |-> None, exc |-> "none", ret |-> None, net |-> <<>>]

\* A step op(in) of the flow with outcome r; api holds every instance by
\* name: the flow's own and one per entry.
FlowDo(op, in, r) ==
    /\ flow' = r.flow
    /\ api' = r.heap
    /\ entries' = r.entries
    /\ last' = [op |-> op, pre |-> [flow |-> flow, api |-> api, entries |-> entries],
                in |-> in, exc |-> "none", ret |-> r.ret, net |-> r.net]

\* The user opens the flow: the phone form.
StartUserFlow ==
    /\ flow.step \in {"none", "finished"}
    /\ FlowDo("async_step_user", [user_input |-> None],
              async_step_user(NoFlow, api, entries, None, Fail("TimeoutError")))

SubmitPhone ==
    /\ flow.step = "user"
    /\ \E phone \in FlowPhones, resp \in FlowOtpResps :
          FlowDo("async_step_user", [user_input |-> Some(phone), resp |-> resp],
                 async_step_user(flow, api, entries, Some(phone), resp))

SubmitCode ==
    /\ flow.step = "otp"
    /\ \E code \in FlowCodes, resp \in FlowVerifyResps :
          FlowDo("async_step_otp", [user_input |-> Some(code), resp |-> resp],
                 async_step_otp(flow, api, entries, Some(code), resp))

\* A re-authentication is started for an entry: the confirmation form.
StartReauthFlow ==
    /\ flow.step \in {"none", "finished"}
    /\ \E uid \in DOMAIN entries :
          FlowDo("async_step_reauth", [entry |-> uid],
                 async_step_reauth(api, entries, uid, Fail("TimeoutError")))

SubmitReauthConfirm ==
    /\ flow.step = "reauth_confirm"
    /\ \E resp \in FlowOtpResps :
          FlowDo("async_step_reauth_confirm", [user_input |-> Some(EmptyObj), resp |-> resp],
                 async_step_reauth_confirm(flow, api, entries, Some(EmptyObj), resp))

SubmitReauthCode ==
    /\ flow.step = "reauth_otp"
    /\ \E code \in FlowCodes, resp \in FlowVerifyResps :
          FlowDo("async_step_reauth_otp", [user_input |-> Some(code), resp |-> resp],
                 async_step_reauth_otp(flow, api, entries, Some(code), resp))

\* A poll cycle of the coordinator of an entry, on that coordinator's
\* instance, at any moment of a flow.
PollEntry ==
    \E uid \in DOMAIN entries, in \in FlowPolls :
        LET r == async_update_data(api[uid], in.minute, in.daily, in.offer, in.today)
        IN  /\ api' = [api EXCEPT ![uid] = r.self]
            /\ last' = [op |-> "_async_update_data",
                        pre |-> [flow |-> flow, api |-> api, entries |-> entries],
                        in |-> [entry |-> uid, poll |-> in],
                        exc |-> r.exc, ret |-> r.ret, net |-> r.net]
            /\ UNCHANGED <<flow, entries>>

NextFlow ==
    \/ StartUserFlow
    \/ SubmitPhone
    \/ SubmitCode
    \/ StartReauthFlow
    \/ SubmitReauthConfirm
    \/ SubmitReauthCode
    \/ PollEntry

SpecFlow == InitFlow /\ [][NextFlow]_vars

\* ------------------------------------------------- phones at the phone step

\* The most digits a typed phone has after its lead.
MaxDigits == 12

\* n times the character c.
Repeat(c, n) == [i \in 1..n |-> c]

\* n digits, with a dash after the third when dashed.
DigitRun(n, dashed) ==
    IF dashed /\ n > 3
    THEN Repeat("5", 3) \o <<"-">> \o Repeat("5", n - 3)
    ELSE Repeat("5", n)

\* How a typed phone starts and ends: country codes with and without a plus
\* sign, another leading digit, punctuation, a digit of another script, a
\* superscript.
PhoneLeads == {<<>>, <<"+">>, <<"1">>, <<"+", "1">>, <<"2">>, <<"+", "2">>, <<"(">>,
               <<"arabic3">>}

PhoneTrails == {<<>>, <<" ">>, <<"sup2">>}

\* Phones as typed.
PhoneStrings ==
    {lead \o DigitRun(n, dashed) \o trail :
        lead \in PhoneLeads, n \in 0..MaxDigits, dashed \in BOOLEAN, trail \in PhoneTrails}
    \cup FlowPhones

PhoneInputs ==
    [user_input : {Some(phone) : phone \in PhoneStrings},
     resp : {Http(200, [token |-> "X1"]), Fail("ClientConnectionError")}]

\* The phone form is shown and a phone is about to be submitted.
InitPhone ==
    /\ api = NoInstances
    /\ flow = async_step_user(NoFlow, NoInstances, NoEntries, None, Fail("TimeoutError")).flow
    /\ entries = NoEntries
    /\ last \in {[op |-> "pending",
                  pre |-> [flow |-> NoFlow, api |-> NoInstances, entries |-> NoEntries],
                  in |-> in, exc |-> "none", ret |-> None, net |-> <<>>] : in \in PhoneInputs}

\* async_step_user on the pending phone.
SubmitTypedPhone ==
    /\ last.op = "pending"
    /\ FlowDo("async_step_user", last.in,
              async_step_user(flow, api, entries, last.in.user_input, last.in.resp))

NextPhone == SubmitTypedPhone

SpecPhone == InitPhone /\ [][NextPhone]_vars

\* -------------------------------------------------- keys of the snapshot

\* The keys of SENSOR_TYPES: one sensor is set up for each.
SENSOR_TYPES == {"daily_production", "cumulative_production", "current_power",
                 "consumption", "grid_export", "grid_import", "battery_solar",
                 "system_size", "num_panels", "system_azimuth", "system_pitch",
                 "sun_exposure_jan", "sun_exposure_feb", "sun_exposure_mar",
                 "sun_exposure_apr", "sun_exposure_may", "sun_exposure_jun",
                 "sun_exposure_jul", "sun_exposure_aug", "sun_exposure_sep",
                 "sun_exposure_oct", "sun_exposure_nov", "sun_exposure_dec"}

\* An offerings object with every field that get_latest_data reads.
OfferAll ==
    Offer1 @@ [hasConsumption |-> TRUE]
           @@ [f \in {month_map[k] : k \in MonthKeys} |-> Num(90, 0)]

\* Each source succeeds with data, succeeds with empty data, or fails.
KeysMinuteAnswers ==
    {Http(200, PollMinuteBody), Http(200, JList(<<>>)), Http(200, JDict(EmptyObj)),
     Http(401, JDict(EmptyObj)), Http(500, JDict(EmptyObj)), Fail("ClientConnectionError")}

KeysDailyAnswers ==
    {Http(200, PollDailyBody), Http(200, JList(<<>>)), Http(200, JDict(EmptyObj)),
     Http(500, JDict(EmptyObj)), Fail("ClientConnectionError")}

KeysOfferAnswers ==
    {Http(200, JDict(OfferAll)), Http(200, JDict(Offer1)), Http(200, JDict(Offer2)),
     Http(200, JDict(EmptyObj)), Http(500, JDict(EmptyObj)), Fail("ClientConnectionError")}

KeysInputs ==
    [minute : KeysMinuteAnswers, daily : KeysDailyAnswers, offer : KeysOfferAnswers,
     today : Todays]

\* An authenticated instance about to aggregate one combination of answers.
InitKeys ==
    /\ api = NewApi(Some("A0"), Some("P0"))
    /\ last \in {[op |-> "pending", pre |-> NewApi(Some("A0"), Some("P0")), in |-> in,
                  exc |-> "none", ret |-> None, net |-> <<>>] : in \in KeysInputs}
    /\ flow = NoFlow
    /\ entries = NoEntries

\* get_latest_data() on the pending answers.
AggregateKeys ==
    /\ last.op = "pending"
    /\ Do("get_latest_data", last.in,
          get_latest_data(api, last.in.minute, last.in.daily, last.in.offer, last.in.today))

NextKeys == AggregateKeys

SpecKeys == InitKeys /\ [][NextKeys]_vars

\* ------------------------------------------------------------------ claims

FetchOps == {"get_cumulative_production", "get_site_production_minute",
             "get_product_offerings"}

\* A credential is absent or empty on the instance.
CredentialAbsent(self) ==
    \/ self.access_token = None \/ self.access_token = Some("")
    \/ self.prospect_id = None \/ self.prospect_id = Some("")

IsStatus(resp, st) == resp.kind = "http" /\ resp.status = st

\* The answer is a non-auth upstream failure: a status other than 200 and
\* 401, a connection error or a timeout.
NonAuthFailure(resp) ==
    \/ resp.kind = "raise"
    \/ resp.kind = "http" /\ resp.status \notin {200, 401}

\* The transport raised something the clients do not turn into a
\* SunrunApiError, so the exception leaves get_latest_data at that fetch.
Escapes(resp) == resp.kind = "raise" /\ ~IsClientError(resp.exc)

\* Some fetch of the poll raises SunrunAuthError: a credential is absent, or
\* an endpoint that is called answers 401.
SomeFetchAuthError(self, in) ==
    \/ CredentialAbsent(self)
    \/ IsStatus(in.minute, 401)
    \/ ~Escapes(in.minute) /\ IsStatus(in.daily, 401)
    \/ ~Escapes(in.minute) /\ ~Escapes(in.daily) /\ IsStatus(in.offer, 401)

\* C1: when one of the three fetches raises AuthError during get_latest_data
\* (a 401 or absent credentials), get_latest_data raises AuthError and returns
\* no snapshot.
C1_AuthErrorPropagates ==
    (last.op = "get_latest_data" /\ SomeFetchAuthError(last.pre, last.in))
        => last.exc = "SunrunAuthError"

\* C2: a poll cycle of the coordinator that runs while the session is dead
\* ends in ConfigEntryAuthFailed, never in a snapshot and never in UpdateFailed.
C2_DeadSessionRequestsReauth ==
    (last.op = "_async_update_data" /\ SomeFetchAuthError(last.pre, last.in))
        => last.exc = "ConfigEntryAuthFailed"

\* Each source of the poll either succeeds or fails with a non-auth
\* SunrunApiError (a non-401 error status or a ClientError).
Degradable(resp) ==
    \/ IsStatus(resp, 200)
    \/ resp.kind = "http" /\ resp.status \notin {200, 401}
    \/ resp.kind = "raise" /\ IsClientError(resp.exc)

Ok200(resp) == IsStatus(resp, 200)

\* The snapshot of the same poll with all three sources answering 200.
AllSucceed(self, in) ==
    get_latest_data(self, Http(200, PollMinuteBody), Http(200, PollDailyBody),
                    Http(200, PollOfferBody), in.today).ret

\* The fields of keys are null when the source failed, and are those of the
\* all-succeed snapshot when it succeeded.
OwnFields(keys, resp, snapshot, reference) ==
    \A k \in keys : snapshot[k] = (IF Ok200(resp) THEN reference[k] ELSE None)

\* C3: partial-failure independence.  When every source succeeds or fails
\* with a non-auth ApiError, get_latest_data returns, a failed source leaves
\* exactly its own fields null, and the fields of a succeeding source are
\* what they are when all three succeed.
C3_PartialFailureIndependence ==
    (/\ last.op = "get_latest_data"
     /\ ~CredentialAbsent(last.pre)
     /\ Degradable(last.in.minute) /\ Degradable(last.in.daily) /\ Degradable(last.in.offer))
        => /\ last.exc = "none"
           /\ DOMAIN last.ret = SnapshotKeys
           /\ OwnFields(MinuteKeys, last.in.minute, last.ret, AllSucceed(last.pre, last.in))
           /\ OwnFields(DailyKeys, last.in.daily, last.ret, AllSucceed(last.pre, last.in))
           /\ OwnFields(OfferingKeys, last.in.offer, last.ret, AllSucceed(last.pre, last.in))

\* C3 witness: the minute source failed with a 500, the other two succeeded;
\* the instantaneous fields are null, the others populated.
C3_Witness ==
    /\ last.op = "get_latest_data"
    /\ ~CredentialAbsent(last.pre)
    /\ IsStatus(last.in.minute, 500) /\ Ok200(last.in.daily) /\ Ok200(last.in.offer)
    /\ last.exc = "none"
    /\ last.ret["current_power"] = None
    /\ last.ret["last_update"] = None
    /\ last.ret["daily_production"] = Some(Num(3, 0))
    /\ last.ret["cumulative_production"] = Some(Num(22, 50))
    /\ last.ret["system_size"] = Some(Num(6, 40))
    /\ last.ret["sun_exposure_jul"] = Some(Num(97, 0))

\* C4: with both credentials present, a non-auth upstream failure of any
\* subset of the sources (error status, connection error, timeout) never
\* makes get_latest_data raise: it returns a snapshot.
C4_NeverRaisesOnUpstreamFailure ==
    (/\ last.op = "get_latest_data"
     /\ ~CredentialAbsent(last.pre)
     /\ \A r \in {last.in.minute, last.in.daily, last.in.offer} :
            Ok200(r) \/ NonAuthFailure(r))
        => last.exc = "none"

\* C5: an endpoint client called while the access token or the prospect id
\* is absent raises AuthError and issues no request, in every session state.
C5_FailFastWithoutCredentials ==
    (last.op \in FetchOps /\ CredentialAbsent(last.pre))
        => last.exc = "SunrunAuthError" /\ last.net = <<>>

\* C5 witness: after a partial auth flow (an access token but no prospect
\* id) a fetch was refused without a request.
C5_Witness ==
    /\ last.op \in FetchOps
    /\ Truthy(last.pre.access_token) /\ last.pre.prospect_id = None
    /\ last.in.resp.kind = "http" /\ last.in.resp.status = 200
    /\ last.exc = "SunrunAuthError" /\ last.net = <<>>

\* C6: with both credentials present, each endpoint client maps 401 to
\* AuthError, any other non-200 status to a plain ApiError, and 200 to the
\* response data, unmodified for the cumulative and offerings endpoints.
C6_StatusMapping ==
    (last.op \in FetchOps /\ ~CredentialAbsent(last.pre) /\ last.in.resp.kind = "http")
        => /\ last.in.resp.status = 401 => last.exc = "SunrunAuthError"
           /\ last.in.resp.status \notin {200, 401} => last.exc = "SunrunApiError"
           /\ last.in.resp.status = 200 => last.exc = "none"
           /\ (last.in.resp.status = 200 /\ last.op # "get_site_production_minute")
                 => last.ret = last.in.resp.body
           /\ (/\ last.in.resp.status = 200
               /\ last.op = "get_site_production_minute"
               /\ last.in.resp.body.t = "list")
                 => last.ret = last.in.resp.body.items

\* C6 witness: a 401 answered to a client holding both credentials.
C6_Witness ==
    /\ last.op = "get_product_offerings"
    /\ ~CredentialAbsent(last.pre)
    /\ IsStatus(last.in.resp, 401)
    /\ last.exc = "SunrunAuthError"
    /\ Len(last.net) = 1

\* C7: test_connection returns false exactly when the cumulative fetch
\* raises AuthError (401 or absent credentials), true when the fetch
\* succeeds or raises a non-auth ApiError, and never raises an ApiError.
C7_TestConnection ==
    last.op = "test_connection"
        => LET authFails == CredentialAbsent(last.pre) \/ IsStatus(last.in.resp, 401)
               escapes == ~authFails /\ last.in.resp.kind = "raise"
                          /\ ~IsClientError(last.in.resp.exc)
           IN  /\ last.exc \notin {"SunrunApiError", "SunrunAuthError"}
               /\ authFails => (last.exc = "none" /\ last.ret = FALSE)
               /\ (~authFails /\ ~escapes) => (last.exc = "none" /\ last.ret = TRUE)

\* C7 witness: a 500 from the cumulative endpoint, answered with true.
C7_Witness ==
    /\ last.op = "test_connection"
    /\ ~CredentialAbsent(last.pre)
    /\ IsStatus(last.in.resp, 500)
    /\ last.exc = "none" /\ last.ret = TRUE

\* The exchange token of a challenge body, probing `token`, then
\* `data.token`, then `data.authToken`; None when it is at none of them.
ProbedToken(body) ==
    IF Truthy(Get(body, "token")) THEN Get(body, "token")
    ELSE IF Truthy(Get(GetOr(body, "data", EmptyObj), "token"))
         THEN Get(GetOr(body, "data", EmptyObj), "token")
    ELSE IF Truthy(Get(GetOr(body, "data", EmptyObj), "authToken"))
         THEN Get(GetOr(body, "data", EmptyObj), "authToken")
    ELSE None

\* C8: request_otp from Unauthenticated, answered with a non-200 status or
\* with a 200 whose body holds no exchange token, raises AuthError and no
\* pending exchange token is held afterwards.
C8_RequestOtpFailure ==
    (/\ last.op = "request_otp"
     /\ last.pre = NewApi(None, None)
     /\ last.in.resp.kind = "http"
     /\ last.in.resp.status # 200 \/ ProbedToken(last.in.resp.body) = None)
        => last.exc = "SunrunAuthError" /\ ~Truthy(api.auth_token)

\* C9: request_otp on a 200 whose body holds the exchange token at `token`,
\* `data.token` or `data.authToken` ends in ChallengeIssued holding the first
\* of these that is present.
C9_TokenProbing ==
    (/\ last.op = "request_otp"
     /\ IsStatus(last.in.resp, 200)
     /\ ProbedToken(last.in.resp.body) # None)
        => /\ last.exc = "none" /\ last.ret = TRUE
           /\ api.auth_token = ProbedToken(last.in.resp.body)

\* C10: after a verify_otp call that fails, the access token and the
\* prospect id hold the values they had before the call.
C10_FailedVerifyKeepsCredentials ==
    (last.op = "verify_otp" /\ last.exc # "none")
        => /\ api.access_token = last.pre.access_token
           /\ api.prospect_id = last.pre.prospect_id

\* A challenge is pending on the instance (ChallengeIssued).
ChallengeIssued(self) == self.auth_token # None /\ self.auth_token # Some("")

\* The 200 body of the respond endpoint holds a non-empty data.accessToken.
HasAccessToken(body) ==
    /\ "data" \in DOMAIN body
    /\ "accessToken" \in DOMAIN body["data"]
    /\ body["data"]["accessToken"] # ""

\* The opportunitiesWithContracts list of the body, empty when it is absent.
Opportunities(body) ==
    IF "opportunitiesWithContracts" \in DOMAIN body
    THEN body["opportunitiesWithContracts"] ELSE <<>>

\* The list is non-empty and its first entry has a non-empty prospect id.
HasFirstProspect(body) ==
    /\ Opportunities(body) # <<>>
    /\ "prospect_id" \in DOMAIN Opportunities(body)[1]
    /\ Opportunities(body)[1]["prospect_id"] # ""

\* contract.ptoDate of an entry, None when it has none.
PtoDateOf(entry) ==
    IF "contract" \in DOMAIN entry /\ "ptoDate" \in DOMAIN entry["contract"]
    THEN Some(entry["contract"]["ptoDate"]) ELSE None

\* C11: verify_otp in ChallengeIssued, answered 200 with a non-empty
\* data.accessToken and a list whose first entry has a prospect id, makes the
\* session Authenticated with that access token and the FIRST entry's
\* prospect id, and returns both with the first entry's contract ptoDate.
C11_VerifySuccess ==
    (/\ last.op = "verify_otp"
     /\ ChallengeIssued(last.pre)
     /\ IsStatus(last.in.resp, 200)
     /\ HasAccessToken(last.in.resp.body)
     /\ HasFirstProspect(last.in.resp.body))
        => LET body == last.in.resp.body
               first == Opportunities(body)[1]
           IN  /\ last.exc = "none"
               /\ api.access_token = Some(body["data"]["accessToken"])
               /\ api.prospect_id = Some(first["prospect_id"])
               /\ last.ret = [access_token |-> Some(body["data"]["accessToken"]),
                              prospect_id |-> Some(first["prospect_id"]),
                              pto_date |-> PtoDateOf(first)]

\* C11 witness: a list of two entries; the first one's id and date are taken.
C11_Witness ==
    /\ last.op = "verify_otp"
    /\ ChallengeIssued(last.pre)
    /\ IsStatus(last.in.resp, 200)
    /\ Opportunities(last.in.resp.body) = <<Opp2, Opp1>>
    /\ last.exc = "none"
    /\ api.access_token = Some("A1")
    /\ api.prospect_id = Some("P2")
    /\ last.ret.pto_date = Some("2023-03-03")

\* C12: verify_otp answered 200 with an empty opportunitiesWithContracts list
\* or without an accessToken raises AuthError, returns no credentials, and
\* the session is not Authenticated afterwards.
C12_VerifyHardFailure ==
    (/\ last.op = "verify_otp"
     /\ ChallengeIssued(last.pre)
     /\ IsStatus(last.in.resp, 200)
     /\ Opportunities(last.in.resp.body) = <<>> \/ ~HasAccessToken(last.in.resp.body))
        => /\ last.exc = "SunrunAuthError"
           /\ last.ret = None
           /\ CredentialAbsent(api)

\* C12 witness: an access token but an empty list, on an instance that held
\* both credentials before.
C12_Witness ==
    /\ last.op = "verify_otp"
    /\ ChallengeIssued(last.pre)
    /\ ~CredentialAbsent(last.pre)
    /\ IsStatus(last.in.resp, 200)
    /\ HasAccessToken(last.in.resp.body)
    /\ Opportunities(last.in.resp.body) = <<>>
    /\ last.exc = "SunrunAuthError"
    /\ CredentialAbsent(api)

\* An answer of the respond endpoint that verifies.
GoodVerifyResp ==
    Http(200, [data |-> [accessToken |-> "A1"], opportunitiesWithContracts |-> <<Opp1>>])

\* A verify_otp called now, answered by GoodVerifyResp.
VerifyNow == verify_otp(api, "+13145551234", "123456", GoodVerifyResp)

\* C13: verify_otp answered with a non-200 status raises AuthError and leaves
\* the same exchange token pending, so that a following verify_otp, with no
\* request_otp in between, sends that token and succeeds.
C13_RejectedVerifyKeepsChallenge ==
    (/\ last.op = "verify_otp"
     /\ ChallengeIssued(last.pre)
     /\ last.in.resp.kind = "http" /\ last.in.resp.status # 200)
        => /\ last.exc = "SunrunAuthError"
           /\ api.auth_token = last.pre.auth_token
           /\ VerifyNow.exc = "none"
           /\ VerifyNow.net = <<Request("POST", "AUTH_RESPOND_ENDPOINT", last.pre.auth_token,
                                        Some("+13145551234"), Some("123456"),
                                        last.pre.auth_token)>>

\* C13 witness: a code rejected with 401 while X1 was pending; X1 still is.
C13_Witness ==
    /\ last.op = "verify_otp"
    /\ last.pre.auth_token = Some("X1")
    /\ IsStatus(last.in.resp, 401)
    /\ last.exc = "SunrunAuthError"
    /\ api.auth_token = Some("X1")

\* C14: a successful verify_otp discards the exchange token, so that a
\* further verify_otp without a new request_otp raises AuthError.
C14_ChallengeConsumed ==
    (last.op = "verify_otp" /\ last.exc = "none")
        => /\ ~ChallengeIssued(api)
           /\ VerifyNow.exc = "SunrunAuthError"

\* C15: a successful request_otp while a challenge is pending replaces the
\* exchange token without an error, and verify_otp always sends the token
\* held, which is that of the most recent successful request_otp.
C15_SecondChallengeReplaces ==
    /\ (/\ last.op = "request_otp"
        /\ ChallengeIssued(last.pre)
        /\ IsStatus(last.in.resp, 200)
        /\ "token" \in DOMAIN last.in.resp.body
        /\ last.in.resp.body["token"] # "")
           => /\ last.exc = "none" /\ last.ret = TRUE
              /\ api.auth_token = Some(last.in.resp.body["token"])
              /\ Len(VerifyNow.net) = 1
              /\ VerifyNow.net[1].token = Some(last.in.resp.body["token"])
              /\ VerifyNow.net[1].auth = Some(last.in.resp.body["token"])
    /\ (last.op = "verify_otp" /\ last.net # <<>>)
           => /\ last.net[1].token = last.pre.auth_token
              /\ last.net[1].auth = last.pre.auth_token

\* C15 witness: X1 was pending and a second challenge brought X2.
C15_Witness ==
    /\ last.op = "request_otp"
    /\ last.pre.auth_token = Some("X1")
    /\ last.exc = "none" /\ last.ret = TRUE
    /\ api.auth_token = Some("X2")

\* C16: at request_otp and verify_otp every network-layer failure
\* (connection error, timeout) surfaces as a SunrunApiError that is not an
\* AuthError, and every server rejection (a non-200 status) as AuthError.
C16_TransportVersusRejection ==
    (last.op \in {"request_otp", "verify_otp"} /\ last.net # <<>>)
        => /\ last.in.resp.kind = "raise" => last.exc = "SunrunApiError"
           /\ (last.in.resp.kind = "http" /\ last.in.resp.status # 200)
                 => last.exc = "SunrunAuthError"

\* get_latest_data has returned a snapshot built from a 200 answer of the
\* minute endpoint.
MinuteAnswered ==
    /\ last.op = "get_latest_data"
    /\ last.exc = "none"
    /\ IsStatus(last.in.minute, 200)

\* The minute list of that answer.
MinuteList == UnwrapMinute(last.in.minute.body)

\* ... and it holds at least one point.
MinuteAggregated == MinuteAnswered /\ MinuteList # <<>>

\* The last point of the minute list.
LastPoint == MinuteList[Len(MinuteList)]

\* The rule as the specification words it: below 100 times 1000, else unchanged.
Scaled(v) == IF v < 100 * 100 THEN v * 1000 ELSE v

\* The snapshot field each reading of a minute point feeds.
ReadingField == [solar |-> "current_power", consumption |-> "consumption",
                 exportReading |-> "grid_export", importReading |-> "grid_import",
                 batterySolar |-> "battery_solar"]

SecondaryKeys == {"consumption", "exportReading", "importReading", "batterySolar"}

\* C17: each of the five readings of the last minute point that is present
\* is emitted as v*1000 when v < 100 and unchanged when v >= 100, whatever
\* the other fields of the point hold.
C17_UnitDetection ==
    MinuteAggregated
        => \A key \in DOMAIN ReadingField :
              key \in DOMAIN LastPoint
                 => last.ret[ReadingField[key]] = Some(Scaled(LastPoint[key]))

\* C18: a secondary reading absent from the last minute point leaves its
\* snapshot field null; one present with value 0 yields the non-null 0.
C18_MissingVersusZero ==
    MinuteAggregated
        => \A key \in SecondaryKeys :
              /\ key \notin DOMAIN LastPoint => last.ret[ReadingField[key]] = None
              /\ (key \in DOMAIN LastPoint /\ LastPoint[key] = 0)
                    => last.ret[ReadingField[key]] = Some(0)

\* C18 witness: consumption is present with 0 and exportReading is absent.
C18_Witness ==
    /\ MinuteAggregated
    /\ "consumption" \in DOMAIN LastPoint /\ LastPoint["consumption"] = 0
    /\ "exportReading" \notin DOMAIN LastPoint
    /\ last.ret["consumption"] = Some(0)
    /\ last.ret["grid_export"] = None

\* C19: current_power comes from solar whenever solar is present (0
\* included), from pvSolar only when solar is absent, and is 0 only when both
\* are absent.
C19_SolarFallback ==
    MinuteAggregated
        => last.ret["current_power"] =
              Some(Scaled(IF "solar" \in DOMAIN LastPoint THEN LastPoint["solar"]
                          ELSE IF "pvSolar" \in DOMAIN LastPoint THEN LastPoint["pvSolar"]
                          ELSE 0))

\* The snapshot of the same poll had the minute list held only its last point.
LastPointAlone ==
    get_latest_data(last.pre, Http(200, JList(<<LastPoint>>)), last.in.daily,
                    last.in.offer, last.in.today).ret

\* C20: for a non-empty minute list the instantaneous fields and last_update
\* are those of the list's last element alone, whatever precedes it and in
\* whatever order; [{solar: 3.2, timestamp: T1}] gives current_power 3200 and
\* last_update T1; for an empty list all of them stay null.
C20_LastElementOnly ==
    MinuteAnswered
        => /\ MinuteList = <<>> => \A k \in MinuteKeys : last.ret[k] = None
           /\ MinuteList # <<>>
                 => /\ \A k \in MinuteKeys : last.ret[k] = LastPointAlone[k]
                    /\ last.ret["last_update"] = Get(LastPoint, "timestamp")
           /\ MinuteList = <<[solar |-> Num(3, 20), timestamp |-> "T1"]>>
                 => /\ last.ret["current_power"] = Some(Num(3200, 0))
                    /\ last.ret["last_update"] = Some("T1")

\* C20 witness: the later point T2 comes first; the last one, T1, is taken.
C20_Witness ==
    /\ MinuteAnswered
    /\ MinuteList = <<Point2, Point1>>
    /\ last.ret["current_power"] = Some(Num(3200, 0))
    /\ last.ret["consumption"] = None
    /\ last.ret["last_update"] = Some("T1")

\* get_latest_data has returned a snapshot built from a 200 answer of the
\* daily endpoint that is a non-empty list.
DailyAggregated ==
    /\ last.op = "get_latest_data"
    /\ last.exc = "none"
    /\ IsStatus(last.in.daily, 200)
    /\ last.in.daily.body.t = "list"
    /\ last.in.daily.body.items # <<>>

DailyList == last.in.daily.body.items

\* The positions of the records whose timestamp starts with today's date.
TodayRecords ==
    {i \in 1..Len(DailyList) :
        /\ "timestamp" \in DOMAIN DailyList[i]
        /\ Len(DailyList[i]["timestamp"]) >= 10
        /\ SubSeq(DailyList[i]["timestamp"], 1, 10) = last.in.today}

\* The two daily fields of the snapshot are those of this record.
DailyFrom(record) ==
    /\ last.ret["daily_production"] = Get(record, "deliveredKwh")
    /\ last.ret["cumulative_production"] = Get(record, "cumulativeKwh")

\* C21: for a non-empty daily list, daily_production and
\* cumulative_production come from a record dated today wherever it sits in
\* the list when there is one, and from the list's last element otherwise,
\* whatever the order of the dates.
C21_DailySelection ==
    DailyAggregated
        => IF TodayRecords # {}
           THEN \E i \in TodayRecords : DailyFrom(DailyList[i])
           ELSE DailyFrom(DailyList[Len(DailyList)])

\* C21 witness: today's record comes first and an earlier day's record last.
C21_Witness ==
    /\ DailyAggregated
    /\ last.in.today = Day1
    /\ DailyList = <<Rec1, Rec2, Rec0>>
    /\ last.ret["daily_production"] = Some(Num(3, 0))
    /\ last.ret["cumulative_production"] = Some(Num(22, 50))

\* C22: get_site_production_minute returns the same list for a 200 body
\* that is the bare list L and for a 200 body {"data": L}; an object without
\* a data key gives the empty list.
C22_MinuteShapes ==
    (/\ last.op = "get_site_production_minute"
     /\ ~CredentialAbsent(last.pre)
     /\ IsStatus(last.in.resp, 200))
        => LET body == last.in.resp.body
               L == IF body.t = "list" THEN body.items
                    ELSE IF "data" \in DOMAIN body.obj THEN body.obj["data"]
                    ELSE <<>>
           IN  /\ last.exc = "none"
               /\ last.ret = L
               /\ get_site_production_minute(last.pre, Http(200, JList(L)))
                    = get_site_production_minute(last.pre, Http(200, JDict([data |-> L])))

\* C22 witness: the list arrives under "data" and is returned as it is.
C22_Witness ==
    /\ last.op = "get_site_production_minute"
    /\ IsStatus(last.in.resp, 200)
    /\ last.in.resp.body = JDict([data |-> <<Point1, Point2>>])
    /\ last.exc = "none"
    /\ last.ret = <<Point1, Point2>>

\* get_latest_data has returned a snapshot and the offerings endpoint had
\* answered 200.
OfferAnswered ==
    /\ last.op = "get_latest_data"
    /\ last.exc = "none"
    /\ IsStatus(last.in.offer, 200)

\* The object the offerings endpoint answered.
Offerings == last.in.offer.body.obj

\* C23: whenever the offerings fetch succeeds, has_battery and
\* has_consumption are false when their vendor field is absent, for every
\* body including the one without fields, and are never null; they are null
\* when the offerings source failed.
C23_FlagsDefaultFalse ==
    /\ OfferAnswered
          => /\ last.ret["has_battery"] # None
             /\ last.ret["has_consumption"] # None
             /\ "brightBox" \notin DOMAIN Offerings => last.ret["has_battery"] = Some(FALSE)
             /\ "hasConsumption" \notin DOMAIN Offerings
                   => last.ret["has_consumption"] = Some(FALSE)
    /\ (last.op = "get_latest_data" /\ last.exc = "none" /\ ~IsStatus(last.in.offer, 200))
          => last.ret["has_battery"] = None /\ last.ret["has_consumption"] = None

\* The vendor field of each month under the regular naming.
RegularShadeField ==
    [sun_exposure_jan |-> "weighted_avg_jan_shade", sun_exposure_feb |-> "weighted_avg_feb_shade",
     sun_exposure_mar |-> "weighted_avg_mar_shade", sun_exposure_apr |-> "weighted_avg_apr_shade",
     sun_exposure_may |-> "weighted_avg_may_shade", sun_exposure_jun |-> "weighted_avg_jun_shade",
     sun_exposure_jul |-> "weighted_avg_jul_shade", sun_exposure_aug |-> "weighted_avg_aug_shade",
     sun_exposure_sep |-> "weighted_avg_sep_shade", sun_exposure_oct |-> "weighted_avg_oct_shade",
     sun_exposure_nov |-> "weighted_avg_nov_shade", sun_exposure_dec |-> "weighted_avg_dec_shade"]

\* The field a month is claimed to be read from.
ClaimedShadeField(k) ==
    IF k = "sun_exposure_jul" THEN "weighted_avg_juy_shade" ELSE RegularShadeField[k]

\* C26: sun_exposure_jul is read from the misspelled weighted_avg_juy_shade
\* and from no other field (a body with only weighted_avg_jul_shade leaves it
\* null); the other eleven months are read from weighted_avg_<mon>_shade.
C26_JulyMisspelled ==
    OfferAnswered
        => \A k \in DOMAIN RegularShadeField :
              last.ret[k] = IF ClaimedShadeField(k) \in DOMAIN Offerings
                            THEN Some(Round1(Offerings[ClaimedShadeField(k)]))
                            ELSE None

\* C26 witness: only the correctly spelled July field is present, with
\* other fields, and sun_exposure_jul stays null.
C26_Witness ==
    /\ OfferAnswered
    /\ "weighted_avg_jul_shade" \in DOMAIN Offerings
    /\ "weighted_avg_juy_shade" \notin DOMAIN Offerings
    /\ "lat" \in DOMAIN Offerings
    /\ last.ret["latitude"] = Some(Num(38, 63))
    /\ last.ret["sun_exposure_jul"] = None

\* The operations of the fetch path.
FetchPathOps == FetchOps \cup {"get_latest_data", "test_connection"}

AuthEndpoints == {"AUTH_REQUEST_ENDPOINT", "AUTH_RESPOND_ENDPOINT"}

\* C24: no operation of the fetch path, with any outcome, changes the access
\* token, the account id or the pending exchange token, and none sends a
\* request to the challenge or respond endpoints.
C24_FetchPathFrame ==
    last.op \in FetchPathOps
        => /\ api = last.pre
           /\ \A i \in 1..Len(last.net) :
                 /\ last.net[i].method = "GET"
                 /\ last.net[i].endpoint \notin AuthEndpoints

\* C24 witness: a poll whose first fetch is answered 401, on an instance
\* that holds both credentials and a pending exchange token.
C24_Witness ==
    /\ last.op = "get_latest_data"
    /\ IsStatus(last.in.minute, 401)
    /\ last.pre = [access_token |-> Some("A1"), prospect_id |-> Some("P1"),
                   auth_token |-> Some("X1")]
    /\ Len(last.net) = 3
    /\ api = last.pre

\* What get_latest_data does on the instance and the answers of the poll.
PollOutcome ==
    get_latest_data(last.pre, last.in.minute, last.in.daily, last.in.offer, last.in.today)

\* The exceptions get_latest_data is written to raise or to let through.
AggregatorExceptions == {"SunrunAuthError", "SunrunApiError", "TimeoutError"}

\* C27: _async_update_data passes a returned snapshot through unchanged,
\* turns AuthError into ConfigEntryAuthFailed, a non-auth ApiError and any
\* other exception into UpdateFailed, and lets nothing else escape.
C27_PollOutcomeMapping ==
    last.op = "_async_update_data"
        => /\ PollOutcome.exc = "none"
                 => last.exc = "none" /\ last.ret = PollOutcome.ret
           /\ IsSunrunAuthError(PollOutcome.exc) => last.exc = "ConfigEntryAuthFailed"
           /\ (PollOutcome.exc # "none" /\ ~IsSunrunAuthError(PollOutcome.exc))
                 => last.exc = "UpdateFailed"
           /\ last.exc \in {"none", "ConfigEntryAuthFailed", "UpdateFailed"}
           /\ \A e \in AggregatorExceptions :
                 MapPollOutcome(Raise(last.pre, e, <<>>)).exc =
                    IF e = "SunrunAuthError" THEN "ConfigEntryAuthFailed" ELSE "UpdateFailed"

\* C27 witness: a timeout leaves get_latest_data as TimeoutError and the
\* poll as UpdateFailed.
C27_Witness ==
    /\ last.op = "_async_update_data"
    /\ ~CredentialAbsent(last.pre)
    /\ last.in.minute = Fail("TimeoutError")
    /\ PollOutcome.exc = "TimeoutError"
    /\ last.exc = "UpdateFailed"

\* The endpoints one call has requested, in order.
EndpointsOf(net) == [i \in 1..Len(net) |-> net[i].endpoint]

\* C28: with both credentials present, one get_latest_data() call requests
\* the minute, daily and offerings endpoints exactly once each, in that
\* order: a failure of an earlier fetch that is not an auth failure neither
\* prevents a later fetch nor causes a retry.
C28_ThreeFetchesInOrder ==
    (last.op = "get_latest_data" /\ ~CredentialAbsent(last.pre))
        => EndpointsOf(last.net) = <<"SITE_PRODUCTION_MINUTE_ENDPOINT",
                                     "CUMULATIVE_PRODUCTION_ENDPOINT",
                                     "PRODUCT_OFFERINGS_ENDPOINT">>

\* C29: verify_otp called while no exchange token is held raises AuthError
\* before any request is made and changes nothing in the session state.
C29_VerifyWithoutChallenge ==
    (last.op = "verify_otp" /\ ~ChallengeIssued(last.pre))
        => /\ last.exc = "SunrunAuthError"
           /\ last.ret = None
           /\ last.net = <<>>
           /\ api = last.pre

\* C29 witness: an instance built with credentials and never challenged is
\* asked to verify, with an answer that would have verified.
C29_Witness ==
    /\ last.op = "verify_otp"
    /\ last.pre = NewApi(Some("A0"), Some("P0"))
    /\ IsStatus(last.in.resp, 200)
    /\ HasAccessToken(last.in.resp.body) /\ HasFirstProspect(last.in.resp.body)
    /\ last.exc = "SunrunAuthError"
    /\ api = last.pre

\* The access tokens and account ids that one answer of the respond
\* endpoint issues together.
IssuedPairs == {<<Some("A1"), Some("P1")>>, <<Some("A2"), Some("P1")>>, <<Some("A3"), Some("P2")>>}

CredentialPair(self) == <<self.access_token, self.prospect_id>>

FlowSteps == {"async_step_user", "async_step_otp", "async_step_reauth",
              "async_step_reauth_confirm", "async_step_reauth_otp"}

\* C25: under any interleaving of polls with the steps of a flow, the flow's
\* request_otp and verify_otp work on the flow's own instance: the instance
\* of an entry's coordinator always holds exactly the pair persisted in the
\* entry, issued by one answer, and no exchange token; a step changes it
\* only by the reload that ends a successful reauth; so every poll runs on
\* such a pair and sends its access token.
C25_FlowNeverSharesInstance ==
    /\ flow.api # None => flow.api[1] \notin DOMAIN entries
    /\ \A uid \in DOMAIN entries :
          /\ uid \in DOMAIN api
          /\ api[uid] = NewApi(entries[uid].access_token, entries[uid].prospect_id)
          /\ CredentialPair(api[uid]) \in IssuedPairs
          /\ api[uid].prospect_id = Some(uid)
    /\ last.op \in FlowSteps
          => \A uid \in DOMAIN last.pre.entries :
                \/ api[uid] = last.pre.api[uid]
                \/ last.ret = AbortResult("reauth_successful")
    /\ last.op = "_async_update_data"
          => /\ CredentialPair(last.pre.api[last.in.entry]) \in IssuedPairs
             /\ api = last.pre.api
             /\ \A i \in 1..Len(last.net) :
                   last.net[i].auth = last.pre.entries[last.in.entry].access_token

\* C25 witness: a poll runs while the reauth flow's own instance holds a new
\* access token without an account id (a 200 without opportunities), and
\* the coordinator's instance still holds the pair of its entry.
C25_Witness ==
    /\ last.op = "_async_update_data"
    /\ last.exc = "none"
    /\ last.pre.flow.step = "reauth_otp"
    /\ last.pre.flow.entry = Some(last.in.entry)
    /\ last.pre.api[FlowRef].access_token = Some("A4")
    /\ last.pre.api[FlowRef].prospect_id = None
    /\ CredentialPair(last.pre.api[last.in.entry]) = <<Some("A1"), Some("P1")>>
    /\ Len(last.net) = 3

\* The step submitted a form that asks for an OTP challenge.
ChallengeSubmitted ==
    /\ last.op \in {"async_step_user", "async_step_reauth_confirm"}
    /\ last.in.user_input # None

\* The form of an OTP entry step is shown.
OtpFormShown == last.ret.type = "form" /\ last.ret.step_id \in {"otp", "reauth_otp"}

\* C30: the phone step and the reauth confirmation step show the OTP form
\* only when the flow's instance holds an exchange token; a 200 of the
\* challenge endpoint without a token keeps the flow on its step, with an
\* error.
C30_OtpFormNeedsChallenge ==
    ChallengeSubmitted
        => /\ OtpFormShown
                 => flow.api # None /\ ChallengeIssued(api[flow.api[1]])
           /\ (/\ "resp" \in DOMAIN last.in
               /\ validate_phone_number(IF last.op = "async_step_user"
                                        THEN last.in.user_input[1]
                                        ELSE last.pre.flow.phone[1])
               /\ IsStatus(last.in.resp, 200)
               /\ "token" \notin DOMAIN last.in.resp.body)
                 => /\ last.ret.type = "form"
                    /\ last.ret.step_id = last.pre.flow.step
                    /\ last.ret.errors # None

\* A code was submitted at one of the two OTP steps.
CodeSubmitted ==
    /\ last.op \in {"async_step_otp", "async_step_reauth_otp"}
    /\ last.in.user_input # None

\* The code as the step reads it, and the form of the step.
SubmittedCode == Strip(last.in.user_input[1])

OtpStepId == IF last.op = "async_step_otp" THEN "otp" ELSE "reauth_otp"

\* verify_otp as the step calls it: on the flow's instance, with the flow's
\* phone and the code read, against the answer of the respond endpoint.
VerifyOfStep ==
    verify_otp(last.pre.api[last.pre.flow.api[1]], last.pre.flow.phone[1],
               SubmittedCode, last.in.resp)

\* The entries whose data the step changed, and the entries it added.
EntriesWritten ==
    {uid \in DOMAIN entries :
        uid \notin DOMAIN last.pre.entries \/ entries[uid] # last.pre.entries[uid]}

\* C31: an entry is created or updated only by an OTP step whose verify_otp
\* returned, and it then holds the access token and the account id that call
\* returned, both non-null, with the phone of the flow; a step that ends on
\* a form with an error, and a poll, leave the entries as they were; no
\* entry is ever removed, and every entry holds a non-null access token, its
\* own account id and a phone that validates.
C31_EntriesWrittenOnlyOnVerifiedCode ==
    /\ DOMAIN last.pre.entries \subseteq DOMAIN entries
    /\ EntriesWritten # {}
          => /\ CodeSubmitted
             /\ VerifyOfStep.exc = "none"
             /\ last.net = VerifyOfStep.net
             /\ last.ret \in {CreateEntryResult, AbortResult("reauth_successful")}
             /\ EntriesWritten = {VerifyOfStep.ret.prospect_id[1]}
             /\ \A uid \in EntriesWritten :
                   /\ entries[uid].access_token = VerifyOfStep.ret.access_token
                   /\ entries[uid].phone = last.pre.flow.phone
    /\ (last.op \in FlowSteps /\ last.ret.type = "form" /\ last.ret.errors # None)
          => entries = last.pre.entries
    /\ last.op = "_async_update_data" => entries = last.pre.entries
    /\ \A uid \in DOMAIN entries :
          /\ Truthy(entries[uid].access_token)
          /\ entries[uid].prospect_id = Some(uid)
          /\ entries[uid].phone # None
          /\ validate_phone_number(entries[uid].phone[1])

\* C31 witness: a verified code at the reauth OTP step rewrites an entry
\* with a new access token.
C31_Witness ==
    /\ last.op = "async_step_reauth_otp"
    /\ last.ret = AbortResult("reauth_successful")
    /\ EntriesWritten # {}
    /\ EntriesWritten \subseteq DOMAIN last.pre.entries

\* C32: when verify_otp raises at an OTP step, the form of that same step is
\* shown again with one error and the flow stays on the step with its
\* instance still holding the exchange token: SunrunAuthError gives
\* invalid_auth, SunrunApiError gives cannot_connect, any other exception
\* gives unknown.
C32_VerifyFailuresKeepOtpStep ==
    (CodeSubmitted /\ ~InvalidCode(SubmittedCode) /\ VerifyOfStep.exc # "none")
        => /\ last.ret.type = "form"
           /\ last.ret.step_id = OtpStepId
           /\ flow.step = OtpStepId
           /\ flow.api = last.pre.flow.api
           /\ flow.phone = last.pre.flow.phone
           /\ api[flow.api[1]].auth_token = last.pre.api[flow.api[1]].auth_token
           /\ entries = last.pre.entries
           /\ VerifyOfStep.exc = "SunrunAuthError" => last.ret.errors = Some("invalid_auth")
           /\ VerifyOfStep.exc = "SunrunApiError" => last.ret.errors = Some("cannot_connect")
           /\ VerifyOfStep.exc \notin {"SunrunAuthError", "SunrunApiError"}
                 => last.ret.errors = Some("unknown")

\* C32 witness: the respond endpoint rejects a well-formed code at the
\* reauth OTP step.
C32_Witness ==
    /\ last.op = "async_step_reauth_otp"
    /\ last.in.user_input # None
    /\ ~InvalidCode(SubmittedCode)
    /\ IsStatus(last.in.resp, 401)
    /\ last.net # <<>>
    /\ last.ret = ShowForm("reauth_otp", Some("invalid_auth"))

\* The reauth OTP step verified a code.
ReauthVerified ==
    /\ last.op = "async_step_reauth_otp"
    /\ last.in.user_input # None
    /\ ~InvalidCode(SubmittedCode)
    /\ VerifyOfStep.exc = "none"

\* C33: after a verified code at the reauth OTP step, if an entry exists for
\* the verified account id, that entry alone gets the new data and the flow
\* aborts with reauth_successful; otherwise no entry and no coordinator's
\* instance changes and the flow aborts with reauth_failed.
C33_ReauthUpdatesMatchingEntryOnly ==
    ReauthVerified
        => LET uid == VerifyOfStep.ret.prospect_id[1]
           IN  IF uid \in DOMAIN last.pre.entries
               THEN /\ entries = [last.pre.entries EXCEPT
                                     ![uid] = [phone |-> last.pre.flow.phone,
                                               access_token |-> VerifyOfStep.ret.access_token,
                                               prospect_id |-> Some(uid),
                                               pto_date |-> VerifyOfStep.ret.pto_date]]
                    /\ \A other \in DOMAIN entries \ {uid} : api[other] = last.pre.api[other]
                    /\ last.ret = AbortResult("reauth_successful")
               ELSE /\ entries = last.pre.entries
                    /\ \A other \in DOMAIN entries : api[other] = last.pre.api[other]
                    /\ last.ret = AbortResult("reauth_failed")

\* C33 witness: the code is verified for an account that has no entry.
C33_Witness ==
    /\ ReauthVerified
    /\ VerifyOfStep.ret.prospect_id[1] \notin DOMAIN last.pre.entries
    /\ last.ret = AbortResult("reauth_failed")

\* Six decimal digits.
SixDecimalDigits(code) == Len(code) = 6 /\ \A i \in 1..Len(code) : IsDecimal(code[i])

\* C34: at both OTP steps verify_otp is called, and a request sent, only for
\* a code that once stripped is six decimal digits; any other code gives the
\* form of the step with invalid_code, sends nothing and leaves the flow,
\* the instances and the entries as they were.
C34_VerifyOnlyForSixDecimalDigits ==
    CodeSubmitted
        => /\ last.net # <<>> => SixDecimalDigits(SubmittedCode)
           /\ ~SixDecimalDigits(SubmittedCode)
                 => /\ last.ret = ShowForm(OtpStepId, Some("invalid_code"))
                    /\ last.net = <<>>
                    /\ api = last.pre.api
                    /\ flow = last.pre.flow
                    /\ entries = last.pre.entries

\* The vendor field behind each of the three snapshot fields of the array.
ArrayField ==
    [num_panels |-> "numPanels", system_azimuth |-> "system_azimuth",
     system_pitch |-> "system_pitch"]

\* C35: when the offerings fetch succeeds, each of panel count, azimuth and
\* pitch that is present in the answer gives a non-null snapshot field, a
\* value of 0 included; these fields are null only when the value was absent
\* or the source failed.
C35_PresentArrayFieldsNonNull ==
    (last.op = "get_latest_data" /\ last.exc = "none")
        => \A k \in DOMAIN ArrayField :
              last.ret[k] = None
                 <=> (~IsStatus(last.in.offer, 200) \/ ArrayField[k] \notin DOMAIN Offerings)

\* The snapshot get_latest_data returns when all three sources fail.
AllFailedSnapshot ==
    get_latest_data(NewApi(Some("A0"), Some("P0")), Http(500, JDict(EmptyObj)),
                    Http(500, JDict(EmptyObj)), Http(500, JDict(EmptyObj)), Day1).ret

\* C36: every snapshot get_latest_data returns has the keys of the snapshot
\* returned when every source fails, whichever sources succeeded, failed or
\* answered empty data; these are the 29 keys of the result literal, and
\* every key of SENSOR_TYPES is one of them.
C36_SnapshotKeysFixed ==
    (last.op = "get_latest_data" /\ last.exc = "none")
        => /\ DOMAIN last.ret = DOMAIN AllFailedSnapshot
           /\ DOMAIN last.ret = SnapshotKeys
           /\ Cardinality(DOMAIN last.ret) = 29
           /\ SENSOR_TYPES \subseteq DOMAIN last.ret

\* C36 witness: the minute source fails, the cumulative source answers an
\* empty list and the offerings carry every field, the misspelled July
\* included.
C36_Witness ==
    /\ last.op = "get_latest_data"
    /\ last.exc = "none"
    /\ IsStatus(last.in.minute, 500)
    /\ last.in.daily = Http(200, JList(<<>>))
    /\ last.in.offer = Http(200, JDict(OfferAll))
    /\ last.ret["current_power"] = None
    /\ last.ret["daily_production"] = None
    /\ \A k \in ExposureKeys : last.ret[k] # None

\* A phone was submitted at the phone step.
PhoneSubmitted == last.op = "async_step_user" /\ last.in.user_input # None

TypedPhone == last.in.user_input[1]

\* The decimal digits of the phone typed, in order.
TypedDigits == SelectSeq(TypedPhone, IsDecimal)

\* 10 digits, or 11 digits of which the first is 1.
TenOrElevenWithOne ==
    \/ Len(TypedDigits) = 10
    \/ Len(TypedDigits) = 11 /\ TypedDigits[1] = "1"

\* C37: formatting a formatted phone changes nothing; a phone validates
\* exactly when its digits are 10, or 11 beginning with 1, and its formatted
\* number is then +1 followed by its last 10 digits; the phone step sends
\* the OTP request exactly for the phones that validate, with the formatted
\* number.
C37_PhoneFormatAndValidation ==
    PhoneSubmitted
        => LET formatted == format_phone_number(TypedPhone)
           IN  /\ format_phone_number(formatted) = formatted
               /\ validate_phone_number(TypedPhone) <=> TenOrElevenWithOne
               /\ TenOrElevenWithOne
                     => formatted = <<"+", "1">> \o SubSeq(TypedDigits, Len(TypedDigits) - 9,
                                                           Len(TypedDigits))
               /\ last.net # <<>> <=> validate_phone_number(TypedPhone)
               /\ ~validate_phone_number(TypedPhone)
                     => last.ret = ShowForm("user", Some("invalid_phone"))
               /\ \A i \in 1..Len(last.net) :
                     /\ last.net[i].endpoint = "AUTH_REQUEST_ENDPOINT"
                     /\ last.net[i].phone = Some(formatted)

\* C37 witness: a phone typed with punctuation and ten digits validates, its
\* formatted number differs from what was typed, and the OTP request is sent.
C37_Witness ==
    /\ PhoneSubmitted
    /\ Len(TypedDigits) = 10
    /\ Len(TypedPhone) > 10
    /\ validate_phone_number(TypedPhone)
    /\ Len(last.net) = 1
    /\ last.ret = ShowForm("otp", None)

====
